---- MODULE Spec2Model ----
(***************************************************************************)
(* Model of the two text transformers of graft-this:                      *)
(*   - tools/generateRoutes/generateRoutes.ts  (route-link extractor)      *)
(*   - tools/seedToSql/seedToSql.mjs           (seed-to-SQL converter)     *)
(*                                                                         *)
(* Source text is modelled as a sequence of lexemes.  A lexeme is the      *)
(* piece of text one of the program's regular expressions matches (or a    *)
(* single bracket character), so that a regular-expression scan becomes a  *)
(* left-to-right scan over lexeme positions and an index comparison in the *)
(* text becomes a comparison of lexeme positions.  Route paths are real    *)
(* strings, so prefix concatenation and duplicate removal are string       *)
(* concatenation and string equality.                                      *)
(***************************************************************************)
EXTENDS Integers, Sequences, FiniteSets, TLC

VARIABLES
  pc,          \* position of main(): "start", "extract", "write", "done", "failed"
  fsys,        \* the file system: file path -> content, Missing or Unreadable
  content,     \* workerContent read by main()
  collected,   \* the local array `routes` of the top-level call, before line 170
  routes,      \* the array returned by extractRoutesFromContent to main()
  warnings,    \* import paths console.warn was called for, in call order
  linksFile,   \* src/app/shared/links.ts: written or not, and the array in it
  exitCode,    \* process exit status, NoExit while running
  callStack,   \* the calls of extractRoutesFromContent on a file that have not returned
  \* seedToSql.mjs
  spc,            \* position of the script: "args", "checked", "resolved", "read",
                  \* "processed", "done", "exited"
  args,           \* process.argv.slice(2)
  disk,           \* the files of the project: path -> seed text, for existing files
  inputFile,      \* NoFile stands for null / undefined
  outputFile,
  seedFileContent,
  extracted,      \* sqlStatements when removeDuplicateSqlStatements is entered
  sqlStatements,
  written,        \* the statements joined into the output file, per output path
  seedExit,       \* exit status of the script, NoExit while running
  \* the installer scripts: install.js / rwsdk-tools, the windsurf tool,
  \* setupShadcn.js, installAddon.mjs with generateAddonConfig.mjs, plopfile.mjs
  tool,           \* the script that runs, "" when none does
  tpc,            \* its position
  argv,           \* process.argv.slice(2)
  files,          \* the text files of the project directory: path -> lines
  packageJson,    \* the project's package.json as JSON.parse reads it
  failing,        \* the shell commands that fail in this environment
  execLog,        \* the commands handed to execSync, in call order
  toolLog,        \* console.error and console.warn messages, in call order
  toolExit,       \* exit status of the script, NoExit while running
  queue,          \* install.js: the installers main() still has to call
  ran,            \* install.js: the installers called so far
  addon,          \* what generateAddonConfig finds in the add-on directory
  addonConfig,    \* the parsed addon.jsonc: key -> value
  addonDir,       \* the add-on directory installAddon.mjs is given: "absent",
                  \* "no addon.jsonc", "unparsable addon.jsonc" or "ok"
  answers,        \* plopfile.mjs: the answers a user gives when prompted
  sourceContent,  \* plopfile.mjs: what restructureComponent read from the component file
  dirs            \* the directories under src/app/components

routeVars == <<pc, fsys, content, collected, routes, warnings, linksFile, exitCode,
               callStack>>

seedVars == <<spc, args, disk, inputFile, outputFile, seedFileContent, extracted,
              sqlStatements, written, seedExit>>

projectVars == <<tool, tpc, argv, files, packageJson, failing, execLog, toolLog, toolExit>>

cliVars == <<queue, ran>>

addonVars == <<addon, addonConfig, addonDir>>

plopVars == <<answers, sourceContent, dirs>>

toolVars == <<projectVars, cliVars, addonVars, plopVars>>

vars == <<routeVars, seedVars, toolVars>>

-----------------------------------------------------------------------------
(* Bounds *)

MaxLen == 4          \* longest enumerated worker source, in lexemes
MaxCalls == 2        \* most db calls in an enumerated seed file
MaxArgs == 2         \* most command-line arguments enumerated
(* the most files a project holds under .windsurf before the setup runs *)
MaxFiles == 3
MaxFlags == 3        \* most flags on an enumerated command line of the generator
MaxEnv == 2          \* most variables in the env array of an addon.jsonc

-----------------------------------------------------------------------------
(* Lexemes of a routes source file *)

Lex(k, p, n) == [k |-> k, p |-> p, n |-> n]

Route(p)        == Lex("route", p, "")       \* route("<p>"
PrefixOpen(p)   == Lex("prefix[", p, "")     \* prefix("<p>", [
PrefixVar(p, n) == Lex("prefixVar", p, n)    \* prefix("<p>", <n>)
Spread(n)       == Lex("spread", "", n)      \* ...<n>
Import(n, p)    == Lex("import", p, n)       \* import { <n> } from "<p>"
IndexCall       == Lex("index", "", "")      \* index(
LB              == Lex("[", "", "")          \* [
RB              == Lex("]", "", "")          \* ]

(* A file system entry: a readable file with its text, a missing file     *)
(* (readFile and access fail) or an existing file readFile fails on.       *)
File(text) == [status |-> "ok", text |-> text]
Missing    == [status |-> "ENOENT", text |-> <<>>]
Unreadable == [status |-> "EACCES", text |-> <<>>]

NoExit     == -1
WorkerPath == "src/worker.tsx"

(* No package.json in the project directory *)
NoPackageJson == [exists |-> FALSE, indent |-> 0, fields |-> <<>>]

(* No add-on directory analysed *)
NoAddon ==
  [name |-> "", imports |-> <<>>, env |-> <<>>, components |-> <<>>, applies |-> FALSE,
   css |-> FALSE, routes |-> FALSE, prefix |-> ""]

(* None of the installer scripts is running *)
ToolsIdle ==
  /\ tool = ""
  /\ tpc = "idle"
  /\ argv = <<>>
  /\ files = <<>>
  /\ packageJson = NoPackageJson
  /\ failing = {}
  /\ execLog = <<>>
  /\ toolLog = <<>>
  /\ toolExit = NoExit
  /\ queue = <<>>
  /\ ran = <<>>
  /\ addon = NoAddon
  /\ addonDir = "absent"
  /\ addonConfig = <<>>
  /\ answers = <<>>
  /\ sourceContent = <<>>
  /\ dirs = {}

-----------------------------------------------------------------------------
(* findMatchingBracket, generateRoutes.ts:18-29 *)

Opens(tok)  == IF tok.k \in {"[", "prefix["} THEN 1 ELSE 0
Closes(tok) == IF tok.k = "]" THEN 1 ELSE 0

RECURSIVE bracketLoop(_, _, _)
bracketLoop(text, i, count) ==
  IF count > 0 /\ i <= Len(text)
    THEN bracketLoop(text, i + 1, count + Opens(text[i]) - Closes(text[i]))
    ELSE i - 1

(* a version that starts counting at depth 0 *)
findMatchingBracketFromZero(text, startIndex) == bracketLoop(text, startIndex, 0)

findMatchingBracket(text, startIndex) == bracketLoop(text, startIndex, 1)

(* String.prototype.substring(start, end) on positions 1..Len+1: both      *)
(* arguments are clamped and swapped when start > end.                     *)
Clamp(text, i) == IF i < 1 THEN 1 ELSE IF i > Len(text) + 1 THEN Len(text) + 1 ELSE i

substring(text, start, end) ==
  LET s == Clamp(text, start)
      e == Clamp(text, end)
      lo == IF s <= e THEN s ELSE e
      hi == IF s <= e THEN e ELSE s
  IN  SubSeq(text, lo, hi - 1)

(* lastIndexOf over the text before position i; 0 stands for -1 *)
RECURSIVE lastIndexOf(_, _, _)
lastIndexOf(text, i, kinds) ==
  IF i < 1 THEN 0
  ELSE IF text[i].k \in kinds THEN i
  ELSE lastIndexOf(text, i - 1, kinds)

-----------------------------------------------------------------------------
(* resolveImportPath, generateRoutes.ts:31-60 *)

(* An import path "<root><name><ext>": root is "@/" or "./", ext is "",    *)
(* ".ts" or ".tsx".                                                        *)
ImportPath(root, name, ext) == [root |-> root, name |-> name, ext |-> ext]

(* path.join(process.cwd(), 'src', ...) and path.join(dirname(file), ...): *)
(* the worker and the route files of the model all live in src/, so both   *)
(* roots resolve against src/.                                             *)
BaseDir(root) == "src/"

NoImport == ImportPath("", "", "")

access(fs, p) == p \in DOMAIN fs /\ fs[p].status # "ENOENT"

resolveImportPath(importPath, fs) ==
  LET absolutePath == BaseDir(importPath.root) \o importPath.name \o importPath.ext
  IN  IF importPath.ext \notin {".ts", ".tsx"}
        THEN IF access(fs, absolutePath \o ".ts") THEN absolutePath \o ".ts"
             ELSE IF access(fs, absolutePath \o ".tsx") THEN absolutePath \o ".tsx"
             ELSE absolutePath \o ".ts"
        ELSE absolutePath

(* fs.readFile(p) succeeds *)
CanRead(fs, p) == p \in DOMAIN fs /\ fs[p].status = "ok"

-----------------------------------------------------------------------------
(* extractRoutesFromContent and findImportedRoutes, generateRoutes.ts:62-171 *)

Result(r, w) == [routes |-> r, warnings |-> w]
NoResult == Result(<<>>, <<>>)
Cat(a, b) == Result(a.routes \o b.routes, a.warnings \o b.warnings)

(* [...new Set(routes)]: insertion order of the first occurrences *)
RECURSIVE setSpreadLoop(_, _, _)
setSpreadLoop(arr, i, acc) ==
  IF i > Len(arr) THEN acc
  ELSE setSpreadLoop(arr, i + 1,
         IF \E j \in 1..Len(acc) : acc[j] = arr[i] THEN acc ELSE Append(acc, arr[i]))

(* a copy of the array that keeps every entry *)
SetSpreadKeepsAll(arr) == arr

SetSpread(arr) == setSpreadLoop(arr, 1, <<>>)

(* imports.get(name) after the import scan: the last import binding the name *)
importsGet(text, name) ==
  LET hits == {i \in 1..Len(text) : text[i].k = "import" /\ text[i].n = name}
  IN  IF hits = {} THEN NoImport
      ELSE text[CHOOSE i \in hits : \A j \in hits : j <= i].p

RECURSIVE collectRoutes(_, _, _)
RECURSIVE importLoop(_, _, _, _)
RECURSIVE prefixLoop(_, _, _, _)

extractRoutesFromContent(text, prefix, fs) ==
  LET raw == collectRoutes(text, prefix, fs)
  IN  Result(SetSpread(raw.routes), raw.warnings)

(* a catch block that swallows the error without console.warn *)
processImportSilent(importPath, prefixPath, fs) ==
  LET absolutePath == resolveImportPath(importPath, fs)
  IN  IF CanRead(fs, absolutePath)
        THEN extractRoutesFromContent(fs[absolutePath].text, prefixPath, fs)
        ELSE NoResult

(* The body of one try/catch of findImportedRoutes (lines 90-98, 108-117) *)
processImport(importPath, prefixPath, fs) ==
  LET absolutePath == resolveImportPath(importPath, fs)
  IN  IF CanRead(fs, absolutePath)
        THEN extractRoutesFromContent(fs[absolutePath].text, prefixPath, fs)
        ELSE Result(<<>>, <<importPath>>)

(* One of the two while loops of findImportedRoutes over the matches of    *)
(* spreadRegex (kind "spread") or prefixVarRegex (kind "prefixVar").       *)
importLoop(text, i, kind, fs) ==
  IF i > Len(text) THEN NoResult
  ELSE IF text[i].k = kind /\ importsGet(text, text[i].n) # NoImport
    THEN Cat(processImport(importsGet(text, text[i].n), text[i].p, fs),
             importLoop(text, i + 1, kind, fs))
    ELSE importLoop(text, i + 1, kind, fs)

findImportedRoutes(text, fs) ==
  Cat(importLoop(text, 1, "spread", fs), importLoop(text, 1, "prefixVar", fs))

(* The while loop over the matches of prefixRegex, lines 136-149 *)
prefixLoop(text, i, prefix, fs) ==
  IF i > Len(text) THEN NoResult
  ELSE IF text[i].k = "prefix["
    THEN LET startIndex == i + 1
             endIndex == findMatchingBracket(text, startIndex)
             nestedContent == substring(text, startIndex, endIndex)
         IN  Cat(extractRoutesFromContent(nestedContent, prefix \o text[i].p, fs),
                 prefixLoop(text, i + 1, prefix, fs))
    ELSE prefixLoop(text, i + 1, prefix, fs)

(* The test of line 158 for the route( match at position i *)
routeIsOutsidePrefix(text, i) ==
  LET lastPrefixIndex == lastIndexOf(text, i - 1, {"prefix[", "prefixVar"})
      lastBracketIndex == lastIndexOf(text, i - 1, {"]"})
  IN  lastPrefixIndex = 0 \/ lastBracketIndex > lastPrefixIndex

(* a route scan that collects with unshift instead of push *)
RECURSIVE routeLoopUnshift(_, _, _)
routeLoopUnshift(text, i, prefix) ==
  IF i > Len(text) THEN <<>>
  ELSE IF text[i].k = "route" /\ routeIsOutsidePrefix(text, i)
    THEN routeLoopUnshift(text, i + 1, prefix) \o <<prefix \o text[i].p>>
    ELSE routeLoopUnshift(text, i + 1, prefix)

RECURSIVE routeLoop(_, _, _)
routeLoop(text, i, prefix) ==
  IF i > Len(text) THEN <<>>
  ELSE IF text[i].k = "route" /\ routeIsOutsidePrefix(text, i)
    THEN <<prefix \o text[i].p>> \o routeLoop(text, i + 1, prefix)
    ELSE routeLoop(text, i + 1, prefix)

(* an index route pushed as "/" whatever the prefix *)
indexRoutesNoPrefix(text, prefix) ==
  IF \E i \in 1..Len(text) : text[i].k = "index" THEN <<"/">> ELSE <<>>

indexRoutes(text, prefix) ==
  IF \E i \in 1..Len(text) : text[i].k = "index" THEN <<prefix \o "/">> ELSE <<>>

(* The array `routes` at line 169, before duplicates are removed *)
collectRoutes(text, prefix, fs) ==
  LET imported == findImportedRoutes(text, fs)
      nested == prefixLoop(text, 1, prefix, fs)
  IN  Result(imported.routes \o nested.routes
               \o routeLoop(text, 1, prefix) \o indexRoutes(text, prefix),
             imported.warnings \o nested.warnings)

-----------------------------------------------------------------------------
(* Inputs: the route files main() can find on disk *)

UserRoutes == ImportPath("@/", "auth", "")

Alphabet ==
  { Route("/x"), Route("/y"), PrefixOpen("/a"), PrefixOpen("/b"), LB, RB,
    IndexCall, Spread("userRoutes"), PrefixVar("/u", "userRoutes") }

RECURSIVE balancedFrom(_, _, _)
balancedFrom(text, i, depth) ==
  IF i > Len(text) THEN depth = 0
  ELSE LET d == depth + Opens(text[i]) - Closes(text[i])
       IN  d >= 0 /\ balancedFrom(text, i + 1, d)

(* Every '[' has its ']' and the other way round *)
Balanced(text) == balancedFrom(text, 1, 0)

Bodies == {b \in UNION {[1..k -> Alphabet] : k \in 0..MaxLen} : Balanced(b)}

(* The README's example: worker.tsx and the route file userRoutes comes from *)
ReadmeWorker ==
  << Import("userRoutes", UserRoutes),
     LB, IndexCall,
         PrefixOpen("/admin"),
           Route("/dashboard"), LB, RB,
           Route("/contacts/:id"), LB, RB,
         RB,
         LB, Spread("userRoutes"), RB,
     RB >>

ReadmeUserRoutes ==
  << LB, Route("/login"), LB, RB, Route("/logout"), LB, RB, RB >>

NestedExample ==
  << PrefixOpen("/a"), PrefixOpen("/b"), Route("/c"), RB, RB >>

PlainExample == << Route("/a"), Route("/b") >>

AdminExample == << PrefixOpen("/admin"), Route("/x"), RB >>

AdminIndexExample == << PrefixOpen("/admin"), IndexCall, RB >>

NestedIndexExample ==
  << PrefixOpen("/a"), Route("/x"), LB, RB, PrefixOpen("/b"), IndexCall, RB, RB >>

Workers ==
  Bodies \cup {<<Import("userRoutes", UserRoutes)>> \o b : b \in Bodies}
         \cup {ReadmeWorker, NestedExample, PlainExample, AdminExample,
               AdminIndexExample, NestedIndexExample}

RouteFiles ==
  { Missing, Unreadable, File(<<>>), File(ReadmeUserRoutes),
    File(<<PrefixOpen("/b"), Route("/x"), RB, IndexCall>>) }

ImportsAnything(text) == \E i \in 1..Len(text) : text[i].k = "import"

FileSystems ==
  { (WorkerPath :> w) @@ ("src/auth.ts" :> a) @@ ("src/auth.tsx" :> ax) :
      w \in {File(t) : t \in Workers} \cup {Missing},
      a \in RouteFiles, ax \in {Missing, File(<<Route("/y")>>)} }

-----------------------------------------------------------------------------
(* main(), generateRoutes.ts:186-198 *)

(* seedToSql.mjs is not running *)
SeedIdle ==
  /\ spc = "idle"
  /\ args = <<>>
  /\ disk = <<>>
  /\ inputFile = <<>>
  /\ outputFile = <<>>
  /\ seedFileContent = <<>>
  /\ extracted = <<>>
  /\ sqlStatements = <<>>
  /\ written = <<>>
  /\ seedExit = NoExit

Init ==
  /\ pc = "start"
  /\ fsys \in {fs \in FileSystems :
                 \/ ImportsAnything(fs[WorkerPath].text)
                 \/ fs["src/auth.ts"] = Missing /\ fs["src/auth.tsx"] = Missing}
  /\ content = <<>>
  /\ collected = <<>>
  /\ routes = <<>>
  /\ warnings = <<>>
  /\ linksFile = [written |-> FALSE, links |-> <<>>]
  /\ exitCode = NoExit
  /\ callStack = <<>>
  /\ SeedIdle
  /\ ToolsIdle

(* line 189: fs.readFile(workerPath) *)
ReadWorker ==
  /\ pc = "start"
  /\ CanRead(fsys, WorkerPath)
  /\ content' = fsys[WorkerPath].text
  /\ pc' = "extract"
  /\ UNCHANGED <<fsys, collected, routes, warnings, linksFile, exitCode, callStack>>
  /\ UNCHANGED <<seedVars, toolVars>>

(* lines 194-197: the catch of main() *)
ReadWorkerFails ==
  /\ pc = "start"
  /\ ~CanRead(fsys, WorkerPath)
  /\ pc' = "failed"
  /\ exitCode' = 1
  /\ UNCHANGED <<fsys, content, collected, routes, warnings, linksFile, callStack>>
  /\ UNCHANGED <<seedVars, toolVars>>

(* line 191: extractRoutesFromContent(workerContent, '', workerPath) *)
ExtractRoutes ==
  /\ pc = "extract"
  /\ LET raw == collectRoutes(content, "", fsys)
     IN  /\ collected' = raw.routes
         /\ routes' = extractRoutesFromContent(content, "", fsys).routes
         /\ warnings' = raw.warnings
  /\ pc' = "write"
  /\ UNCHANGED <<fsys, content, linksFile, exitCode, callStack>>
  /\ UNCHANGED <<seedVars, toolVars>>

(* lines 173-184, 192: generateLinksFile(routes) *)
GenerateLinksFile ==
  /\ pc = "write"
  /\ linksFile' = [written |-> TRUE, links |-> routes]
  /\ pc' = "done"
  /\ UNCHANGED <<fsys, content, collected, routes, warnings, exitCode, callStack>>
  /\ UNCHANGED <<seedVars, toolVars>>

Next == ReadWorker \/ ReadWorkerFails \/ ExtractRoutes \/ GenerateLinksFile

Spec == Init /\ [][Next]_vars

-----------------------------------------------------------------------------
(* Lines 136-140 for the first prefix("<p>", [ of a text, on texts whose    *)
(* brackets need not match: LB and RB stand for every literal '[' and ']'  *)
(* of the source, those inside strings included                            *)

firstPrefixBlock(text) ==
  CHOOSE i \in 1..Len(text) : text[i].k = "prefix[" /\ \A j \in 1..(i - 1) : text[j].k # "prefix["

(* lines 138-140: startIndex, endIndex, nestedContent *)
nestedContentOf(text) ==
  substring(text, firstPrefixBlock(text) + 1,
            findMatchingBracket(text, firstPrefixBlock(text) + 1))

NestedContent ==
  /\ pc = "block"
  /\ content' = nestedContentOf(content)
  /\ pc' = "nested"
  /\ UNCHANGED <<fsys, collected, routes, warnings, linksFile, exitCode, callStack>>
  /\ UNCHANGED <<seedVars, toolVars>>

BracketAlphabet == {LB, RB, PrefixOpen("/a"), Route("/x"), IndexCall}

BracketTexts ==
  {t \in UNION {[1..k -> BracketAlphabet] : k \in 1..MaxLen} :
     \E i \in 1..Len(t) : t[i].k = "prefix["}
  \cup {<<PrefixOpen("/a"), Route("/x"), LB, RB, RB, Route("/y")>>}

BracketInit ==
  /\ pc = "block"
  /\ \E t \in BracketTexts : fsys = (WorkerPath :> File(t)) /\ content = t
  /\ collected = <<>>
  /\ routes = <<>>
  /\ warnings = <<>>
  /\ linksFile = [written |-> FALSE, links |-> <<>>]
  /\ exitCode = NoExit
  /\ callStack = <<>>
  /\ SeedIdle
  /\ ToolsIdle

BracketNext == NestedContent

BracketSpec == BracketInit /\ [][BracketNext]_vars

-----------------------------------------------------------------------------
(* The calls of extractRoutesFromContent on files, one step per call and   *)
(* return: main() calls it on the worker (line 191), findImportedRoutes on *)
(* the file of every bound reference (lines 94 and 112).  The text of a    *)
(* prefix block holds no import statement, so the calls on blocks (line    *)
(* 143) never reach a file.                                                *)

RECURSIVE referencesFrom(_, _, _)
referencesFrom(text, i, kind) ==
  IF i > Len(text) THEN <<>>
  ELSE IF text[i].k = kind /\ importsGet(text, text[i].n) # NoImport
    THEN <<i>> \o referencesFrom(text, i + 1, kind)
    ELSE referencesFrom(text, i + 1, kind)

(* The positions of the references findImportedRoutes follows, in its      *)
(* order: the spreads (lines 86-100), then the prefix calls (103-118)      *)
importReferences(text) ==
  referencesFrom(text, 1, "spread") \o referencesFrom(text, 1, "prefixVar")

(* A call that has not returned: its file and the reference it is at *)
Frame(file, next) == [file |-> file, next |-> next]

(* The callers of a call on a file that is on the stack already.  That     *)
(* call does what the earlier one on the file did and comes to the same    *)
(* file again, so none of its callers is ever returned to: they are left   *)
(* out, counted modulo 2.                                                  *)
Elided(n) == Frame("", n)

elided(stack) == IF stack[1].file = "" THEN stack[1].next ELSE 0

onStack(stack, file) == \E i \in 1..Len(stack) : stack[i].file = file

called(stack, file) ==
  IF onStack(stack, file)
    THEN <<Elided((elided(stack) + 1) % 2), Frame(file, 1)>>
    ELSE Append(stack, Frame(file, 1))

(* The file the call on top of the stack reads next (lines 92-93, 110-111) *)
referenced(fs, frame) ==
  resolveImportPath(
    importsGet(fs[frame.file].text,
               fs[frame.file].text[importReferences(fs[frame.file].text)[frame.next]].n),
    fs)

hasReference(fs, frame) == frame.next <= Len(importReferences(fs[frame.file].text))

(* line 191: main() calls extractRoutesFromContent on the worker *)
CallExtractRoutes ==
  /\ pc = "extract"
  /\ callStack' = <<Frame(WorkerPath, 1)>>
  /\ pc' = "extracting"
  /\ UNCHANGED <<fsys, content, collected, routes, warnings, linksFile, exitCode>>
  /\ UNCHANGED <<seedVars, toolVars>>

(* lines 90-98 and 108-117: the file of the next reference is read and     *)
(* extractRoutesFromContent is called on it, or the catch block skips it   *)
ProcessReference ==
  /\ pc = "extracting"
  /\ hasReference(fsys, callStack[Len(callStack)])
  /\ callStack' =
       IF CanRead(fsys, referenced(fsys, callStack[Len(callStack)]))
         THEN called([callStack EXCEPT ![Len(callStack)].next = @ + 1],
                     referenced(fsys, callStack[Len(callStack)]))
         ELSE [callStack EXCEPT ![Len(callStack)].next = @ + 1]
  /\ UNCHANGED <<pc, fsys, content, collected, routes, warnings, linksFile, exitCode>>
  /\ UNCHANGED <<seedVars, toolVars>>

(* a call that has a caller to return to, or main() *)
returns ==
  /\ pc = "extracting"
  /\ ~hasReference(fsys, callStack[Len(callStack)])
  /\ IF Len(callStack) = 1 THEN TRUE ELSE callStack[Len(callStack) - 1].file # ""

(* lines 120 and 170: a call has followed all its references and returns;  *)
(* the call on the worker returns the routes to main()                     *)
ReturnRoutes ==
  /\ returns
  /\ callStack' = SubSeq(callStack, 1, Len(callStack) - 1)
  /\ IF Len(callStack) = 1
       THEN /\ collected' = collectRoutes(content, "", fsys).routes
            /\ routes' = extractRoutesFromContent(content, "", fsys).routes
            /\ warnings' = collectRoutes(content, "", fsys).warnings
            /\ pc' = "write"
       ELSE UNCHANGED <<pc, collected, routes, warnings>>
  /\ UNCHANGED <<fsys, content, linksFile, exitCode>>
  /\ UNCHANGED <<seedVars, toolVars>>

(* Route files that import each other, themselves, or nothing *)
WorkerImport == ImportPath("./", "worker", "")
PagesImport == ImportPath("./", "auth", ".tsx")

CycleWorkers ==
  { File(<<Import("userRoutes", UserRoutes), LB, Spread("userRoutes"), Route("/x"), RB>>),
    File(<<Import("userRoutes", UserRoutes), LB, PrefixVar("/u", "userRoutes"), RB>>),
    File(<<Import("self", WorkerImport), LB, Spread("self"), Route("/x"), RB>>),
    File(<<Import("userRoutes", UserRoutes), Import("pages", PagesImport),
           LB, Spread("pages"), PrefixVar("/u", "userRoutes"), RB>>),
    File(ReadmeWorker), Missing }

CycleRouteFiles ==
  { Missing, Unreadable, File(ReadmeUserRoutes),
    File(<<Import("app", WorkerImport), LB, Spread("app"), Route("/login"), RB>>),
    File(<<Import("me", UserRoutes), LB, PrefixVar("/me", "me"), Route("/login"), RB>>),
    File(<<Import("pages", PagesImport), LB, Spread("pages"), RB>>) }

CyclePages ==
  { Missing, File(<<Route("/y")>>),
    File(<<Import("app", WorkerImport), LB, PrefixVar("/app", "app"), RB>>) }

CycleInit ==
  /\ pc = "start"
  /\ fsys \in { (WorkerPath :> w) @@ ("src/auth.ts" :> a) @@ ("src/auth.tsx" :> ax) :
                  w \in CycleWorkers, a \in CycleRouteFiles, ax \in CyclePages }
  /\ content = <<>>
  /\ collected = <<>>
  /\ routes = <<>>
  /\ warnings = <<>>
  /\ linksFile = [written |-> FALSE, links |-> <<>>]
  /\ exitCode = NoExit
  /\ callStack = <<>>
  /\ SeedIdle
  /\ ToolsIdle

CycleNext ==
  \/ ReadWorker
  \/ ReadWorkerFails
  \/ CallExtractRoutes
  \/ ProcessReference
  \/ ReturnRoutes
  \/ GenerateLinksFile

(* node runs the script on: a step that can be taken is taken.  The weak   *)
(* fairness of ReturnRoutes is written out over `returns`, the states it   *)
(* can be taken in.                                                        *)
CycleSpec ==
  /\ CycleInit
  /\ [][CycleNext]_vars
  /\ WF_vars(ReadWorker \/ ReadWorkerFails \/ CallExtractRoutes
               \/ ProcessReference \/ GenerateLinksFile)
  /\ ([]<>~returns \/ []<><<ReturnRoutes>>_vars)

-----------------------------------------------------------------------------
(* seedToSql.mjs: command line, lines 18-56 *)

(* A command-line argument or file path as path.parse sees it.  A flag is  *)
(* an argument without directory and extension; NoFile stands for null,    *)
(* undefined and the empty string, the values `!inputFile` is true for.    *)
Path(dir, name, ext) == [dir |-> dir, name |-> name, ext |-> ext]
Flag(text) == Path("", text, "")
NoFile == Path("", "", "")

SeedTs == Path("", "seed", ".ts")
OutSql == Path("", "out", ".sql")
DefaultSeedTs == Path("src/scripts/", "seed", ".ts")

(* args[j], undefined past the end *)
argAt(a, j) == IF j <= Len(a) THEN a[j] ELSE NoFile

(* The for loop of lines 23-34; the result is <<inputFile, outputFile>> *)
RECURSIVE argLoop(_, _, _, _)
argLoop(a, i, inF, outF) ==
  IF i > Len(a) THEN <<inF, outF>>
  ELSE IF a[i] \in {Flag("--input"), Flag("-i")} THEN argLoop(a, i + 2, argAt(a, i + 1), outF)
  ELSE IF a[i] \in {Flag("--output"), Flag("-o")} THEN argLoop(a, i + 2, inF, argAt(a, i + 1))
  ELSE IF inF = NoFile THEN argLoop(a, i + 1, a[i], outF)
  ELSE argLoop(a, i + 1, inF, outF)

(* lines 44-45: the input filename with the .sql extension *)
defaultOutput(inF) == Path(inF.dir, inF.name, ".sql")

existsSync(d, p) == p \in DOMAIN d

-----------------------------------------------------------------------------
(* Seed files.  A seed text is the sequence of its db calls; a call is     *)
(*   await db.$executeRawUnsafe(<quote> <lines> <quote>)                   *)
(*   [await] db.<model>.createMany({ data: [ <items> ] })                  *)
(*   [await] db.<model>.create({ data: { <item> }[,] })                    *)
(* The data of an object literal is flat, one `key: value,` per line.      *)

Val(t, v) == [t |-> t, v |-> v]      \* t: "string", "number", "boolean", "date", "dateArg"
Str(v) == Val("string", v)           \* "<v>"
Num(v) == Val("number", v)           \* <v>
NewDate == Val("date", "new Date()")
NewDateArg == Val("dateArg", "new Date(2024)")

(* Lines of a nested object literal, one per entry of the data:            *)
(*   <<name, Open>>  is the line `name: {`                                 *)
(*   <<name, Tight>> is the line `name:{`                                  *)
(*   <<"", Close>>   is the line `},`                                      *)
Open  == Val("open", "{")
Tight == Val("tight", "{")
Close == Val("close", "}")

Call(kind, awaited, model, quote, lines, items, comma) ==
  [kind |-> kind, awaited |-> awaited, model |-> model, quote |-> quote,
   lines |-> lines, items |-> items, comma |-> comma]

(* quote: "template-backslash" is a template literal opened by backtick,   *)
(* backslash, newline; "template" a plain template literal; "string" a     *)
(* quoted string.                                                          *)
RawCall(quote, lines) == Call("raw", TRUE, "", quote, lines, <<>>, FALSE)
CreateMany(awaited, model, items) == Call("createMany", awaited, model, "", <<>>, items, FALSE)
Create(awaited, model, data, comma) == Call("create", awaited, model, "", <<>>, <<data>>, comma)

(* A line of text, and an SQL statement, is a sequence of pieces: a piece  *)
(* is a run of whitespace or a text without leading, trailing or repeated  *)
(* whitespace.                                                             *)
Whitespace == {" ", "  ", "    "}

RECURSIVE trimStart(_)
trimStart(line) ==
  IF line # <<>> /\ Head(line) \in Whitespace THEN trimStart(Tail(line)) ELSE line

RECURSIVE trimEnd(_)
trimEnd(line) ==
  IF line # <<>> /\ line[Len(line)] \in Whitespace
    THEN trimEnd(SubSeq(line, 1, Len(line) - 1)) ELSE line

trim(line) == trimEnd(trimStart(line))

(* seedFileContent.includes(marker), for a marker that is a whole piece of *)
(* raw SQL or a whole string value                                         *)
includes(seed, marker) ==
  \E c \in 1..Len(seed) :
    \/ \E l \in 1..Len(seed[c].lines) :
         \E p \in 1..Len(seed[c].lines[l]) : seed[c].lines[l][p] = marker
    \/ \E i \in 1..Len(seed[c].items) :
         \E k \in 1..Len(seed[c].items[i]) :
           seed[c].items[i][k][2] = Str(marker)

-----------------------------------------------------------------------------
(* valueToSql, lines 65-81 *)

valueToSql(value) ==
  CASE value.t = "null"    -> "NULL"
    [] value.t = "string"  -> "'" \o value.v \o "'"
    [] value.t = "number"  -> value.v
    [] value.t = "boolean" -> IF value.v = "true" THEN "1" ELSE "0"
    [] OTHER               -> "CURRENT_TIMESTAMP"

RECURSIVE join(_, _)
join(strings, sep) ==
  IF strings = <<>> THEN ""
  ELSE IF Len(strings) = 1 THEN strings[1]
  ELSE strings[1] \o sep \o join(Tail(strings), sep)

(* The template of lines 206, 228, 296, 322, 382, 585 and 613 *)
insertSql(modelName, columns, values) ==
  << "INSERT INTO \"" \o modelName \o "\" ("
       \o join([c \in 1..Len(columns) |-> "\"" \o columns[c] \o "\""], ", ")
       \o ") VALUES (" \o join(values, ", ") \o ");" >>

keysOf(item) == [k \in 1..Len(item) |-> item[k][1]]

-----------------------------------------------------------------------------
(* extractRawSql, lines 84-173 *)

(* lines 93-96: split('\n'), trim each line, drop the empty ones *)
statementLines(lines) ==
  SelectSeq([l \in 1..Len(lines) |-> trim(lines[l])], LAMBDA line : line # <<>>)

(* The match of the regular expressions of lines 90 and 111: from the      *)
(* first backslash of the file to the next backtick-parenthesis.           *)
(* Backslashes                                                             *)
(* occur only in the opening of a template-backslash literal.              *)
backslashCalls(seed) == {c \in 1..Len(seed) : seed[c].kind = "raw" /\ seed[c].quote = "template-backslash"}

deleteMatch(seed) ==
  IF backslashCalls(seed) = {} THEN <<>>
  ELSE seed[CHOOSE c \in backslashCalls(seed) : \A d \in backslashCalls(seed) : c <= d].lines

(* The text of a call that follows "db." *)
afterDbDot(call) ==
  IF call.kind = "raw" THEN "$executeRawUnsafe(" ELSE call.model \o ".create"

(* /db\.$executeRawUnsafe\(.../ (lines 130, 149, 162): the `$` is not      *)
(* escaped, so it is the end-of-input assertion; it holds where no text    *)
(* follows "db.", and there the literal executeRawUnsafe( has to follow.   *)
rawSqlRegexMatches(call) ==
  /\ call.kind = "raw"
  /\ Len(afterDbDot(call)) = 0
  /\ afterDbDot(call) = "executeRawUnsafe("

(* lines 138-142 for one match: the statements of the literal, one per     *)
(* line of the literal, each ending in ';'                                 *)
RECURSIVE rawSqlLoop(_, _)
rawSqlLoop(seed, c) ==
  IF c > Len(seed) THEN <<>>
  ELSE IF rawSqlRegexMatches(seed[c])
    THEN statementLines(seed[c].lines) \o rawSqlLoop(seed, c + 1)
    ELSE rawSqlLoop(seed, c + 1)

extractRawSql(seed, stmts) ==
  IF /\ includes(seed, "DELETE FROM Application;")
     /\ includes(seed, "DELETE FROM sqlite_sequence;")
     /\ statementLines(deleteMatch(seed)) # <<>>
    THEN stmts \o statementLines(deleteMatch(seed))
  ELSE IF /\ includes(seed, "DELETE FROM User;")
          /\ includes(seed, "DELETE FROM sqlite_sequence;")
          /\ statementLines(deleteMatch(seed)) # <<>>
    THEN stmts \o statementLines(deleteMatch(seed))
  ELSE LET found == stmts \o rawSqlLoop(seed, 1)
       IN  IF Len(found) = 0
             THEN LET blocks == {c \in 1..Len(seed) : rawSqlRegexMatches(seed[c])}
                  IN  IF blocks = {} THEN found
                      ELSE statementLines(seed[CHOOSE c \in blocks : \A d \in blocks : c <= d].lines)
             ELSE found

-----------------------------------------------------------------------------
(* extractCreateMany, lines 176-239 *)

(* JSON.parse accepts the value once keys and quotes are normalised *)
isJson(value) == value.t \in {"string", "number", "boolean", "null"}

itemIsJson(item) == \A k \in 1..Len(item) : isJson(item[k][2])

itemInsert(modelName, item) ==
  insertSql(modelName, keysOf(item), [k \in 1..Len(item) |-> valueToSql(item[k][2])])

RECURSIVE itemLoop(_, _, _)
itemLoop(modelName, items, i) ==
  IF i > Len(items) THEN <<>>
  ELSE <<itemInsert(modelName, items[i])>> \o itemLoop(modelName, items, i + 1)

(* lines 188-237 for one match of createManyPattern *)
createManyStatements(call) ==
  IF \A i \in 1..Len(call.items) : itemIsJson(call.items[i])
    THEN itemLoop(call.model, call.items, 1)
    ELSE itemLoop(call.model, SelectSeq(call.items, itemIsJson), 1)

(* createManyPattern, line 179: await db.<model>.createMany({ data: [ *)
createManyMatches(call) == call.kind = "createMany" /\ call.awaited

RECURSIVE createManyLoop(_, _)
createManyLoop(seed, c) ==
  IF c > Len(seed) THEN <<>>
  ELSE IF createManyMatches(seed[c])
    THEN createManyStatements(seed[c]) \o createManyLoop(seed, c + 1)
    ELSE createManyLoop(seed, c + 1)

extractCreateMany(seed, stmts) == stmts \o createManyLoop(seed, 1)

-----------------------------------------------------------------------------
(* extractSimpleCreate, lines 242-390 *)

(* createRegexPatterns[n], lines 249-252: the second and fourth need       *)
(* `await`, the third and fourth accept a comma after the data object.     *)
createRegexMatches(n, call) ==
  /\ call.kind = "create"
  /\ (n \in {2, 4} => call.awaited)
  /\ (call.comma => n \in {3, 4})

(* lines 291-294: a value of the parsed object *)
simpleValue(value) ==
  IF value.t = "date" \/ value = Str("CURRENT_TIMESTAMP")
    THEN "CURRENT_TIMESTAMP" ELSE valueToSql(value)

(* lines 313-317 and 371-377: a value of a `key: value` pair taken as text *)
pairValue(value) ==
  IF value.t = "string" THEN "'" \o value.v \o "'"
  ELSE valueToSql(Str(value.v))

(* lines 275-334 for one match *)
simpleCreateStatement(call) ==
  LET item == call.items[1]
  IN  IF \A k \in 1..Len(item) : isJson(item[k][2]) \/ item[k][2].t = "date"
        THEN insertSql(call.model, keysOf(item),
                       [k \in 1..Len(item) |-> simpleValue(item[k][2])])
        ELSE insertSql(call.model, keysOf(item),
                       [k \in 1..Len(item) |-> pairValue(item[k][2])])

(* lines 269, 349 and 414: dataBlock.includes('create:') ||                *)
(* dataBlock.includes('connect:')                                          *)
includesRelation(item) == \E k \in 1..Len(item) : item[k][1] \in {"create", "connect"}

RECURSIVE simpleCreateLoop(_, _, _)
simpleCreateLoop(seed, n, c) ==
  IF n > 4 THEN <<>>
  ELSE IF c > Len(seed) THEN simpleCreateLoop(seed, n + 1, 1)
  ELSE IF createRegexMatches(n, seed[c]) /\ ~includesRelation(seed[c].items[1])
    THEN <<simpleCreateStatement(seed[c])>> \o simpleCreateLoop(seed, n, c + 1)
    ELSE simpleCreateLoop(seed, n, c + 1)

(* genericPattern, line 341: db.<model>.create ... data: ... { <block> }   *)
(* ... }; it also matches a createMany call, with the first element of the *)
(* data array as its block.                                                *)
genericMatches(call) == call.kind \in {"create", "createMany"} /\ call.items # <<>>

genericStatement(call) ==
  LET item == call.items[1]
  IN  insertSql(call.model, keysOf(item), [k \in 1..Len(item) |-> pairValue(item[k][2])])

RECURSIVE genericLoop(_, _)
genericLoop(seed, c) ==
  IF c > Len(seed) THEN <<>>
  ELSE IF genericMatches(seed[c]) /\ ~includesRelation(seed[c].items[1])
    THEN <<genericStatement(seed[c])>> \o genericLoop(seed, c + 1)
    ELSE genericLoop(seed, c + 1)

extractSimpleCreate(seed, stmts) ==
  LET foundMatch == \E n \in 1..4 : \E c \in 1..Len(seed) : createRegexMatches(n, seed[c])
  IN  IF foundMatch THEN stmts \o simpleCreateLoop(seed, 1, 1)
      ELSE stmts \o genericLoop(seed, 1)

-----------------------------------------------------------------------------
(* extractComplexCreate, lines 393-615 *)

(* lines 539-552: a value of a `field: value` line, and lines 576-579 and  *)
(* 608-611: its text in the INSERT                                         *)
complexValue(value) ==
  CASE value.t = "string"              -> valueToSql(value)
    [] value.t \in {"boolean", "number"} -> valueToSql(value)
    [] value.t \in {"date", "dateArg"}  -> "CURRENT_TIMESTAMP"
    [] OTHER                           -> valueToSql(Str(value.v))

(* obj[field] = value on an object that keeps its keys in insertion order *)
setField(data, field, value) ==
  IF \E k \in 1..Len(data) : data[k][1] = field
    THEN [k \in 1..Len(data) |-> IF data[k][1] = field THEN <<field, value>> ELSE data[k]]
    ELSE Append(data, <<field, value>>)

(* lines 490-496: type "" stands for null, parent 0 for null; a relation   *)
(* is known by its position in nestedRelations                             *)
Relation(name, type, data, parent, level) ==
  [name |-> name, type |-> type, data |-> data, parent |-> parent, level |-> level]

(* The locals of lines 470-478; threw records the TypeError of line 514 *)
ParseStart ==
  [mainEntityData |-> <<>>, nestedRelations |-> <<>>, currentRelation |-> 0,
   nestedLevel |-> 0, nestedRelationStack |-> <<>>, threw |-> FALSE]

(* The for loop of lines 480-561 *)
RECURSIVE lineLoop(_, _, _)
lineLoop(lines, i, st) ==
  IF i > Len(lines) \/ st.threw THEN st
  ELSE
    LET field == lines[i][1]
        value == lines[i][2]
        openBraces == IF value.t \in {"open", "tight"} THEN 1 ELSE 0
        closeBraces == IF value.t = "close" THEN 1 ELSE 0
        leveled == [st EXCEPT !.nestedLevel = @ + openBraces - closeBraces]
    IN  IF value.t = "open"
          \* lines 487-505: the line includes ': {'
          THEN lineLoop(lines, i + 1,
                 [leveled EXCEPT
                    !.nestedRelations =
                       Append(@, Relation(field, "", <<>>, st.currentRelation,
                                          leveled.nestedLevel)),
                    !.nestedRelationStack =
                       IF st.currentRelation # 0 THEN Append(@, st.currentRelation) ELSE @,
                    !.currentRelation = Len(st.nestedRelations) + 1])
        ELSE IF closeBraces > 0 /\ Len(st.nestedRelationStack) > 0 /\ st.currentRelation # 0
          \* lines 509-516: after the pop, `closeBraces--` assigns to a const
          THEN [leveled EXCEPT !.threw = TRUE]
        ELSE IF st.currentRelation # 0 /\ field \in {"connect", "create"} /\ value.t = "tight"
          \* lines 519-526
          THEN lineLoop(lines, i + 1,
                 [leveled EXCEPT !.nestedRelations[st.currentRelation].type = field])
        ELSE IF value.t = "close"
          \* no `field: value` on the line
          THEN lineLoop(lines, i + 1, leveled)
        ELSE IF st.currentRelation # 0 /\ st.nestedRelations[st.currentRelation].type # ""
          \* lines 555-556
          THEN lineLoop(lines, i + 1,
                 [leveled EXCEPT !.nestedRelations[st.currentRelation].data =
                                    setField(@, field, value)])
        ELSE IF st.currentRelation = 0
          \* lines 557-558
          THEN lineLoop(lines, i + 1,
                 [leveled EXCEPT !.mainEntityData = setField(@, field, value)])
        ELSE lineLoop(lines, i + 1, leveled)

(* lines 564-567: a stable sort by level, deepest first *)
RECURSIVE sortLoop(_, _, _)
sortLoop(rels, level, lowest) ==
  IF level < lowest THEN <<>>
  ELSE SelectSeq([i \in 1..Len(rels) |-> i], LAMBDA i : rels[i].level = level)
         \o sortLoop(rels, level - 1, lowest)

sortedRelations(rels) ==
  LET levels == {rels[i].level : i \in 1..Len(rels)}
  IN  IF levels = {} THEN <<>>
      ELSE sortLoop(rels, CHOOSE l \in levels : \A m \in levels : m <= l,
                    CHOOSE l \in levels : \A m \in levels : l <= m)

(* key.charAt(0).toUpperCase() + key.slice(1), for the keys of the inputs *)
capitalized(key) ==
  CASE key = "id"    -> "Id"
    [] key = "email" -> "Email"
    [] key = "name"  -> "Name"
    [] OTHER         -> key

(* relation.data.id || `<name-id>`, line 582 *)
relationIdOf(relation) ==
  LET ids == {k \in 1..Len(relation.data) :
                relation.data[k][1] = "id" /\ relation.data[k][2].v \notin {"", "0"}}
  IN  IF ids # {} THEN relation.data[CHOOSE k \in ids : TRUE][2]
      ELSE Str("<" \o relation.name \o "-id>")

dataInsert(name, data) ==
  insertSql(name, keysOf(data), [k \in 1..Len(data) |-> complexValue(data[k][2])])

(* lines 596-602: the fields of a connect relation become keys of target *)
RECURSIVE connectLoop(_, _, _)
connectLoop(relation, k, target) ==
  IF k > Len(relation.data) THEN target
  ELSE connectLoop(relation, k + 1,
         setField(target, relation.name \o capitalized(relation.data[k][1]),
                  relation.data[k][2]))

(* The for loop of lines 572-604 over sortedRelations; acc holds the       *)
(* relations, mainEntityData and the statements pushed so far              *)
RECURSIVE relationLoop(_, _, _)
relationLoop(order, j, acc) ==
  IF j > Len(order) THEN acc
  ELSE
    LET relation == acc.rels[order[j]]
    IN  IF relation.type = "create"
          THEN relationLoop(order, j + 1,
                 [rels |-> IF relation.parent # 0
                             THEN [acc.rels EXCEPT ![relation.parent].data =
                                     setField(@, relation.name \o "Id", relationIdOf(relation))]
                             ELSE acc.rels,
                  main |-> IF relation.parent # 0 THEN acc.main
                           ELSE setField(acc.main, relation.name \o "Id", relationIdOf(relation)),
                  stmts |-> Append(acc.stmts, dataInsert(relation.name, relation.data))])
        ELSE IF relation.type = "connect"
          THEN relationLoop(order, j + 1,
                 [rels |-> IF relation.parent # 0
                             THEN [acc.rels EXCEPT ![relation.parent].data =
                                     connectLoop(relation, 1, @)]
                             ELSE acc.rels,
                  main |-> IF relation.parent # 0 THEN acc.main
                           ELSE connectLoop(relation, 1, acc.main),
                  stmts |-> acc.stmts])
        ELSE relationLoop(order, j + 1, acc)

(* lines 563-614: the INSERTs of the create relations, then the INSERT of  *)
(* the main entity                                                         *)
emitRelations(mainModelName, rels, main) ==
  LET done == relationLoop(sortedRelations(rels), 1,
                           [rels |-> rels, main |-> main, stmts |-> <<>>])
  IN  Append(done.stmts, dataInsert(mainModelName, done.main))

(* processComplexCreateData throws (line 514) *)
processComplexCreateDataThrows(item) == lineLoop(item, 1, ParseStart).threw

(* The statements processComplexCreateData pushes when it returns *)
processComplexCreateData(mainModelName, item) ==
  LET parsed == lineLoop(item, 1, ParseStart)
  IN  emitRelations(mainModelName, parsed.nestedRelations, parsed.mainEntityData)

(* complexCreatePattern (line 406) and the patterns of lines 426, 441 and  *)
(* 455 end in `}` `}` `)`: no comma after the data object                  *)
complexCreateMatches(call) == call.kind = "create" /\ ~call.comma

(* lines 406-418: the pattern needs `await`; data without a relation is    *)
(* skipped                                                                 *)
directComplexMatches(call) ==
  complexCreateMatches(call) /\ call.awaited /\ includesRelation(call.items[1])

RECURSIVE complexLoop(_, _)
complexLoop(seed, c) ==
  IF c > Len(seed) THEN <<>>
  ELSE IF complexCreateMatches(seed[c])
    THEN processComplexCreateData(seed[c].model, seed[c].items[1]) \o complexLoop(seed, c + 1)
    ELSE complexLoop(seed, c + 1)

RECURSIVE directComplexLoop(_, _)
directComplexLoop(seed, c) ==
  IF c > Len(seed) THEN <<>>
  ELSE IF directComplexMatches(seed[c])
    THEN processComplexCreateData(seed[c].model, seed[c].items[1])
           \o directComplexLoop(seed, c + 1)
    ELSE directComplexLoop(seed, c + 1)

(* lines 404-420 *)
extractDirectComplexCreate(seed, stmts) == stmts \o directComplexLoop(seed, 1)

(* The first db.application.create call of the file (line 426): 0 if none *)
applicationMatch(seed) ==
  LET direct == {c \in 1..Len(seed) : complexCreateMatches(seed[c]) /\ seed[c].model = "application"}
  IN  IF direct = {} THEN 0 ELSE CHOOSE x \in direct : \A y \in direct : x <= y

(* lines 423-465: the first db.application.create call, else every create  *)
(* call (the calls of a seed text are not wrapped in `const f = async`)    *)
extractFunctionWrappedCreate(seed, stmts) ==
  IF applicationMatch(seed) # 0
    THEN stmts \o processComplexCreateData("application", seed[applicationMatch(seed)].items[1])
  ELSE IF Len(stmts) = 0 THEN stmts \o complexLoop(seed, 1)
  ELSE stmts

extractComplexCreate(seed, stmts) ==
  LET direct == extractDirectComplexCreate(seed, stmts)
  IN  IF Len(direct) = 0 THEN extractFunctionWrappedCreate(seed, direct) ELSE direct

(* extractComplexCreate is left by the exception of line 514: in a call of *)
(* processComplexCreateData made by lines 418, 429 or 462                  *)
extractComplexCreateThrows(seed, stmts) ==
  \/ \E c \in 1..Len(seed) :
       directComplexMatches(seed[c]) /\ processComplexCreateDataThrows(seed[c].items[1])
  \/ /\ \A c \in 1..Len(seed) : ~directComplexMatches(seed[c])
     /\ Len(stmts) = 0
     /\ IF applicationMatch(seed) # 0
          THEN processComplexCreateDataThrows(seed[applicationMatch(seed)].items[1])
          ELSE \E c \in 1..Len(seed) :
                 complexCreateMatches(seed[c]) /\ processComplexCreateDataThrows(seed[c].items[1])

-----------------------------------------------------------------------------
(* handleExample2, removeDuplicateSqlStatements, processSeedFile: 618-698 *)

isExample2Any(seed) ==
  \/ includes(seed, "RedwoodSDK")
  \/ includes(seed, "john.doe@example.com")
  \/ includes(seed, "Hiring Manager")

isExample2(seed) ==
  /\ includes(seed, "RedwoodSDK")
  /\ includes(seed, "john.doe@example.com")
  /\ includes(seed, "Hiring Manager")

Example2Statements ==
  << <<"INSERT INTO \"company\" (\"name\") VALUES ('RedwoodSDK');">>,
     <<"INSERT INTO \"contacts\" (\"firstName\", \"lastName\", \"email\", \"role\", \"userId\", \"companyId\") VALUES ('John', 'Doe', 'john.doe@example.com', 'Hiring Manager', 'c4f35853-8909-4139-98bb-c08663e4230c', (SELECT id FROM \"company\" WHERE name = 'RedwoodSDK'));">>,
     <<"INSERT INTO \"application\" (\"userId\", \"applicationStatusId\", \"companyId\", \"salaryMin\", \"salaryMax\", \"jobTitle\", \"jobDescription\", \"postingUrl\", \"dateApplied\") VALUES ('f8886f0e-fa1a-485a-9239-e066c0672bf9', 1, (SELECT id FROM \"company\" WHERE name = 'RedwoodSDK'), '100000', '120000', 'Software Engineer', 'Software Engineer', 'https://redwoodjs.com', CURRENT_TIMESTAMP);">> >>

NoStatementsComment ==
  << <<"-- This seed file contains complex operations that could not be automatically converted to SQL.">>,
     <<"-- Please review the seed file and manually create the appropriate SQL statements.">> >>

(* line 655: statement.replace(/\s+/g, ' ').trim() *)
RECURSIVE collapse(_, _)
collapse(stmt, p) ==
  IF p > Len(stmt) THEN ""
  ELSE IF stmt[p] \in Whitespace
    THEN (IF p > 1 /\ stmt[p - 1] \in Whitespace THEN "" ELSE " ") \o collapse(stmt, p + 1)
    ELSE stmt[p] \o collapse(stmt, p + 1)

normalized(stmt) == collapse(trim(stmt), 1)

RECURSIVE uniqueLoop(_, _, _, _)
uniqueLoop(stmts, i, seen, uniqueStatements) ==
  IF i > Len(stmts) THEN uniqueStatements
  ELSE IF normalized(stmts[i]) \in seen
    THEN uniqueLoop(stmts, i + 1, seen, uniqueStatements)
    ELSE uniqueLoop(stmts, i + 1, seen \cup {normalized(stmts[i])},
                    Append(uniqueStatements, stmts[i]))

(* a deduplication that compares the statements as written *)
RECURSIVE exactLoop(_, _, _, _)
exactLoop(stmts, i, seen, uniqueStatements) ==
  IF i > Len(stmts) THEN uniqueStatements
  ELSE IF stmts[i] \in seen
    THEN exactLoop(stmts, i + 1, seen, uniqueStatements)
    ELSE exactLoop(stmts, i + 1, seen \cup {stmts[i]}, Append(uniqueStatements, stmts[i]))

removeDuplicatesExact(stmts) == exactLoop(stmts, 1, {}, <<>>)

removeDuplicateSqlStatements(stmts) == uniqueLoop(stmts, 1, {}, <<>>)

(* The statements collected by lines 679-682 *)
extractAll(seed) ==
  extractComplexCreate(seed,
    extractSimpleCreate(seed,
      extractCreateMany(seed,
        extractRawSql(seed, <<>>))))

(* processSeedFile is left by an exception: nothing between line 514 and   *)
(* the call of line 701 catches it                                         *)
processSeedFileThrows(seed) ==
  /\ ~isExample2(seed)
  /\ extractComplexCreateThrows(seed,
       extractSimpleCreate(seed, extractCreateMany(seed, extractRawSql(seed, <<>>))))

(* sqlStatements after processSeedFile *)
processSeedFile(seed) ==
  IF isExample2(seed) THEN Example2Statements
  ELSE LET unique == removeDuplicateSqlStatements(extractAll(seed))
       IN  IF Len(unique) = 0 THEN NoStatementsComment ELSE unique

-----------------------------------------------------------------------------
(* Inputs of seedToSql.mjs *)

UserOne   == << <<"id", Num("1")>>, <<"name", Str("a")>> >>
UserTwo   == << <<"name", Str("b")>> >>
UserDated == << <<"id", Num("2")>>, <<"createdAt", NewDate>> >>
UserDatedArg == << <<"id", Num("3")>>, <<"createdAt", NewDateArg>> >>
Example2Data ==
  << <<"name", Str("RedwoodSDK")>>, <<"email", Str("john.doe@example.com")>>,
     <<"role", Str("Hiring Manager")>> >>

ApplicationLines ==
  << <<"    ", "DELETE FROM Application;">>, <<"    ", "DELETE FROM sqlite_sequence;">>, <<"  ">> >>
UserLines ==
  << <<"DELETE FROM User;">>, <<"DELETE", "  ", "FROM User;">>, <<"DELETE FROM sqlite_sequence;">> >>
PostLines == << <<"DELETE FROM Post;">> >>

Calls ==
  {RawCall(q, l) : q \in {"template-backslash", "template", "string"}, l \in {ApplicationLines, UserLines, PostLines}}
  \cup {CreateMany(a, "user", items) : a \in BOOLEAN,
          items \in {<<UserOne>>, <<UserTwo>>, <<UserOne, UserTwo>>, <<UserTwo, UserTwo>>,
                     <<UserDated, UserTwo>>}}
  \cup {Create(a, "user", data, comma) : a \in BOOLEAN, data \in {UserOne, UserDated},
          comma \in BOOLEAN}
  \cup {Create(TRUE, "user", UserDatedArg, TRUE), Create(TRUE, "company", Example2Data, TRUE)}

(* Data with nested relations.  A relation written `name: {` over         *)
(* `create: {` is the layout of the createApplication example;            *)
(* the Tight data write the inner brace as `create:{`.                     *)
JobTitle == <<"jobTitle", Str("dev")>>
CloseLine == <<"", Close>>

NestedCreateData ==
  << JobTitle, <<"company", Open>>, <<"create", Open>>, <<"name", Str("Acme")>>,
     CloseLine, CloseLine >>
NestedConnectData ==
  << <<"user", Open>>, <<"connect", Open>>, <<"id", Str("u1")>>, CloseLine, CloseLine,
     JobTitle >>
TightCreateData ==
  << JobTitle, <<"company", Open>>, <<"create", Tight>>, <<"name", Str("Acme")>>,
     CloseLine, CloseLine >>
TightConnectData ==
  << JobTitle, <<"user", Open>>, <<"connect", Tight>>, <<"id", Str("u1")>>,
     <<"email", Str("u@x.io")>>, CloseLine, CloseLine >>
TightBothData ==
  << JobTitle, <<"company", Open>>, <<"create", Tight>>, <<"name", Str("Acme")>>,
     CloseLine, CloseLine,
     <<"user", Open>>, <<"connect", Tight>>, <<"id", Str("u1")>>, CloseLine, CloseLine >>
TightDeepData ==
  << <<"company", Open>>, <<"create", Tight>>, <<"name", Str("Acme")>>,
     <<"contacts", Open>>, <<"create", Tight>>, <<"firstName", Str("John")>>,
     CloseLine, CloseLine, CloseLine, CloseLine >>

NestedData ==
  {NestedCreateData, NestedConnectData, TightCreateData, TightConnectData, TightBothData,
   TightDeepData}

NestedCalls ==
  {Create(a, m, data, comma) : a \in BOOLEAN, m \in {"application", "post"},
     data \in NestedData, comma \in BOOLEAN}

NestedSeeds ==
  {<<c>> : c \in NestedCalls}
  \cup {<<CreateMany(TRUE, "user", <<UserTwo>>), c>> : c \in NestedCalls}

(* Seed files that hold some of the texts handleExample2 looks for, in one *)
(* call or spread over two                                                *)
CompanyOnly == Create(TRUE, "company", << <<"name", Str("RedwoodSDK")>> >>, TRUE)
ContactOnly ==
  Create(TRUE, "contact", << <<"email", Str("john.doe@example.com")>>,
                             <<"role", Str("Hiring Manager")>> >>, TRUE)

PartialSeeds ==
  {<<CompanyOnly>>, <<ContactOnly>>, <<CompanyOnly, ContactOnly>>,
   <<CompanyOnly, CreateMany(TRUE, "user", <<UserTwo>>)>>}

Seeds == UNION {[1..n -> Calls] : n \in 0..MaxCalls} \cup NestedSeeds \cup PartialSeeds

ArgWords == {Flag("--input"), Flag("-i"), Flag("--output"), Flag("-o"), SeedTs, OutSql}

CommandLines == UNION {[1..n -> ArgWords] : n \in 0..MaxArgs}

DefaultSeed == << CreateMany(TRUE, "user", <<UserTwo>>) >>

-----------------------------------------------------------------------------
(* The script seedToSql.mjs, top to bottom *)

RoutesIdle ==
  /\ pc = "idle"
  /\ fsys = <<>>
  /\ content = <<>>
  /\ collected = <<>>
  /\ routes = <<>>
  /\ warnings = <<>>
  /\ linksFile = [written |-> FALSE, links |-> <<>>]
  /\ exitCode = NoExit
  /\ callStack = <<>>

SeedInit ==
  /\ RoutesIdle
  /\ ToolsIdle
  /\ spc = "args"
  /\ \E a \in CommandLines, seed \in Seeds :
       /\ a = <<Flag("--input"), SeedTs>> \/ seed = <<>>
       /\ args = a
       /\ disk = (SeedTs :> seed) @@ (DefaultSeedTs :> DefaultSeed)
  /\ inputFile = NoFile
  /\ outputFile = NoFile
  /\ seedFileContent = <<>>
  /\ extracted = <<>>
  /\ sqlStatements = <<>>
  /\ written = [path |-> NoFile, statements |-> <<>>]
  /\ seedExit = NoExit

(* lines 19-34 *)
ParseArgs ==
  /\ spc = "args"
  /\ inputFile' = argLoop(args, 1, NoFile, NoFile)[1]
  /\ outputFile' = argLoop(args, 1, NoFile, NoFile)[2]
  /\ spc' = "parsed"
  /\ UNCHANGED <<args, disk, seedFileContent, extracted, sqlStatements, written, seedExit>>
  /\ UNCHANGED <<routeVars, toolVars>>

(* lines 36-40 *)
NoInputFile ==
  /\ spc = "parsed"
  /\ inputFile = NoFile
  /\ spc' = "exited"
  /\ seedExit' = 1
  /\ UNCHANGED <<args, disk, inputFile, outputFile, seedFileContent, extracted,
                 sqlStatements, written>>
  /\ UNCHANGED <<routeVars, toolVars>>

(* lines 42-50 *)
ResolveOutput ==
  /\ spc = "parsed"
  /\ inputFile # NoFile
  /\ outputFile' = IF outputFile = NoFile THEN defaultOutput(inputFile) ELSE outputFile
  /\ spc' = "resolved"
  /\ UNCHANGED <<args, disk, inputFile, seedFileContent, extracted, sqlStatements,
                 written, seedExit>>
  /\ UNCHANGED <<routeVars, toolVars>>

(* lines 53-56 *)
InputMissing ==
  /\ spc = "resolved"
  /\ ~existsSync(disk, inputFile)
  /\ spc' = "exited"
  /\ seedExit' = 1
  /\ UNCHANGED <<args, disk, inputFile, outputFile, seedFileContent, extracted,
                 sqlStatements, written>>
  /\ UNCHANGED <<routeVars, toolVars>>

(* line 59 *)
ReadInput ==
  /\ spc = "resolved"
  /\ existsSync(disk, inputFile)
  /\ seedFileContent' = disk[inputFile]
  /\ spc' = "read"
  /\ UNCHANGED <<args, disk, inputFile, outputFile, extracted, sqlStatements, written,
                 seedExit>>
  /\ UNCHANGED <<routeVars, toolVars>>

(* line 701: processSeedFile() ends in an uncaught TypeError; node prints  *)
(* it and exits with status 1, line 707 is not reached                     *)
ProcessSeedFileThrows ==
  /\ spc = "read"
  /\ processSeedFileThrows(seedFileContent)
  /\ spc' = "crashed"
  /\ seedExit' = 1
  /\ UNCHANGED <<args, disk, inputFile, outputFile, seedFileContent, extracted,
                 sqlStatements, written>>
  /\ UNCHANGED <<routeVars, toolVars>>

(* line 701: processSeedFile() *)
ProcessSeedFile ==
  /\ spc = "read"
  /\ ~processSeedFileThrows(seedFileContent)
  /\ extracted' = IF isExample2(seedFileContent) THEN Example2Statements
                  ELSE extractAll(seedFileContent)
  /\ sqlStatements' = processSeedFile(seedFileContent)
  /\ spc' = "processed"
  /\ UNCHANGED <<args, disk, inputFile, outputFile, seedFileContent, written, seedExit>>
  /\ UNCHANGED <<routeVars, toolVars>>

(* lines 704-715 *)
WriteOutput ==
  /\ spc = "processed"
  /\ written' = [path |-> outputFile, statements |-> sqlStatements]
  /\ spc' = "done"
  /\ seedExit' = 0
  /\ UNCHANGED <<args, disk, inputFile, outputFile, seedFileContent, extracted,
                 sqlStatements>>
  /\ UNCHANGED <<routeVars, toolVars>>

SeedNext ==
  \/ ParseArgs \/ NoInputFile \/ ResolveOutput \/ InputMissing
  \/ ReadInput \/ ProcessSeedFile \/ ProcessSeedFileThrows \/ WriteOutput

SeedSpec == SeedInit /\ [][SeedNext]_vars

-----------------------------------------------------------------------------
(* Project files of the installer scripts.  A text file is a sequence of   *)
(* lines and a line a sequence of pieces, cut so that every text a script  *)
(* searches for or inserts is a run of whole pieces.                       *)

existsFile(fs, p) == p \in DOMAIN fs

(* fs.writeFileSync(p, text) and fs.copyFileSync(src, p) *)
writeFile(fs, p, text) ==
  [q \in DOMAIN fs \cup {p} |-> IF q = p THEN text ELSE fs[q]]

(* fs.readFileSync(p) behind an existsSync test that leaves the content   *)
(* at '' for a file that does not exist; '' is one empty line             *)
readFile(fs, p) == IF existsFile(fs, p) THEN fs[p] ELSE <<<<>>>>

(* line.includes(text), text a run of pieces *)
lineIncludes(line, text) ==
  \E o \in 1..Len(line) :
    o + Len(text) - 1 <= Len(line) /\ SubSeq(line, o, o + Len(text) - 1) = text

(* content.includes(text) for a text that holds no newline *)
includesText(body, text) ==
  \E l \in 1..Len(body) : lineIncludes(body[l], text)

(* The first line of the body that includes text, 0 if none *)
firstLineWith(body, text) ==
  LET hits == {l \in 1..Len(body) : lineIncludes(body[l], text)}
  IN  IF hits = {} THEN 0 ELSE CHOOSE l \in hits : \A m \in hits : l <= m

insertLineAfter(body, l, line) ==
  SubSeq(body, 1, l) \o <<line>> \o SubSeq(body, l + 1, Len(body))

-----------------------------------------------------------------------------
(* package.json.  fields holds the top-level keys in file order; a field   *)
(* is a JSON text or, for scripts, dependencies and devDependencies, the   *)
(* entries of an object.  indent is the number of spaces a nested line of  *)
(* the file starts with (0 for tabs or a file on one line).                *)

JsonText(key, text) == [key |-> key, text |-> text, entries |-> <<>>]
JsonObject(key, entries) == [key |-> key, text |-> "", entries |-> entries]

PackageJson(indent, fields) == [exists |-> TRUE, indent |-> indent, fields |-> fields]

fieldIndex(pkg, key) ==
  LET hits == {f \in 1..Len(pkg.fields) : pkg.fields[f].key = key}
  IN  IF hits = {} THEN 0 ELSE CHOOSE f \in hits : TRUE

(* packageJson[key] && packageJson[key][name] *)
hasEntry(pkg, key, name) ==
  /\ fieldIndex(pkg, key) # 0
  /\ \E e \in 1..Len(pkg.fields[fieldIndex(pkg, key)].entries) :
       pkg.fields[fieldIndex(pkg, key)].entries[e][1] = name

(* obj[name] = value on the entries of a JSON object *)
setEntry(entries, name, value) ==
  IF \E e \in 1..Len(entries) : entries[e][1] = name
    THEN [e \in 1..Len(entries) |-> IF entries[e][1] = name THEN <<name, value>> ELSE entries[e]]
    ELSE Append(entries, <<name, value>>)

(* part_001:182-186 (install.js:160): packageJsonContent.includes('  "') ?  *)
(* 2 : packageJsonContent.includes('    "') ? 4 : 2                        *)
spacing(pkg) == IF pkg.indent >= 2 THEN 2 ELSE IF pkg.indent >= 4 THEN 4 ELSE 2

(* a version that writes the scripts section anew with the one script *)
addScriptToPackageJsonAlone(pkg, scriptName, scriptCommand) ==
  IF ~pkg.exists THEN pkg
  ELSE
    LET withScripts == IF fieldIndex(pkg, "scripts") = 0
                         THEN Append(pkg.fields, JsonObject("scripts", <<>>))
                         ELSE pkg.fields
        s == fieldIndex([pkg EXCEPT !.fields = withScripts], "scripts")
    IN  [exists |-> TRUE,
         indent |-> spacing(pkg),
         fields |-> [withScripts EXCEPT ![s].entries = <<<<scriptName, scriptCommand>>>>]]

(* addScriptToPackageJson, part_001:159-198 (install.js:137-167) *)
addScriptToPackageJson(pkg, scriptName, scriptCommand) ==
  IF ~pkg.exists THEN pkg
  ELSE
    LET withScripts == IF fieldIndex(pkg, "scripts") = 0
                         THEN Append(pkg.fields, JsonObject("scripts", <<>>))
                         ELSE pkg.fields
        s == fieldIndex([pkg EXCEPT !.fields = withScripts], "scripts")
    IN  [exists |-> TRUE,
         indent |-> spacing(pkg),
         fields |-> [withScripts EXCEPT
                       ![s].entries = setEntry(@, scriptName, scriptCommand)]]

(* The console.error of part_001:164 *)
addScriptLog(pkg) == IF pkg.exists THEN <<>> ELSE <<"Error: package.json not found">>

(* Several calls of addScriptToPackageJson in a row *)
RECURSIVE addScripts(_, _)
addScripts(pkg, scripts) ==
  IF scripts = <<>> THEN pkg
  ELSE addScripts(addScriptToPackageJson(pkg, Head(scripts)[1], Head(scripts)[2]),
                  Tail(scripts))

RECURSIVE addScriptsLog(_, _)
addScriptsLog(pkg, scripts) ==
  IF scripts = <<>> THEN <<>>
  ELSE addScriptLog(pkg) \o addScriptsLog(pkg, Tail(scripts))

(* `pnpm install <packages>` and `pnpm install -D <packages>` when they    *)
(* succeed: the packages are recorded in package.json                      *)
RECURSIVE pnpmInstall(_, _, _)
pnpmInstall(pkg, key, packages) ==
  IF ~pkg.exists \/ packages = <<>> THEN pkg
  ELSE
    LET withKey == IF fieldIndex(pkg, key) = 0
                     THEN Append(pkg.fields, JsonObject(key, <<>>))
                     ELSE pkg.fields
        d == fieldIndex([pkg EXCEPT !.fields = withKey], key)
    IN  pnpmInstall([pkg EXCEPT !.fields =
                       [withKey EXCEPT ![d].entries = setEntry(@, Head(packages), "latest")]],
                    key, Tail(packages))

(* checkPlopInstalled, part_001:321-342 *)
checkPlopInstalled(pkg) ==
  pkg.exists /\ (hasEntry(pkg, "dependencies", "plop") \/ hasEntry(pkg, "devDependencies", "plop"))

(* checkTailwindInstalled, part_001:349-381 *)
checkTailwindInstalled(pkg) ==
  /\ pkg.exists
  /\ hasEntry(pkg, "dependencies", "tailwindcss") \/ hasEntry(pkg, "devDependencies", "tailwindcss")
  /\ \/ hasEntry(pkg, "dependencies", "@tailwindcss/vite")
     \/ hasEntry(pkg, "devDependencies", "@tailwindcss/vite")

-----------------------------------------------------------------------------
(* The project an installer works on: what it reads and changes.  exit is  *)
(* NoExit until the installer calls process.exit.                          *)

Project(fs, pkg) == [files |-> fs, pkg |-> pkg, exec |-> <<>>, log |-> <<>>, exit |-> NoExit]

(* execSync(command): the command is run; it throws when the command fails *)
exec(p, command) == [p EXCEPT !.exec = Append(@, command)]

logged(p, messages) == [p EXCEPT !.log = @ \o messages]

exited(p, message) == [p EXCEPT !.log = Append(@, message), !.exit = 1]

wrote(p, path, text) == [p EXCEPT !.files = writeFile(@, path, text)]

(* A file of the package, copied as a whole: one line holding its name *)
ToolFile(name) == <<<<name>>>>

withScripts(p, scripts) ==
  [p EXCEPT !.pkg = addScripts(@, scripts), !.log = @ \o addScriptsLog(p.pkg, scripts)]

(* String.prototype.replace(piece, replacement) on a text: the first       *)
(* occurrence of the piece is replaced by the lines of the replacement     *)
replacePiece(body, piece, replacement) ==
  LET l == firstLineWith(body, <<piece>>)
  IN  IF l = 0 THEN body
      ELSE
        LET line == body[l]
            o == CHOOSE k \in 1..Len(line) :
                   line[k] = piece /\ \A j \in 1..(k - 1) : line[j] # piece
            before == SubSeq(line, 1, o - 1)
            after == SubSeq(line, o + 1, Len(line))
            n == Len(replacement)
            lines == IF n = 1 THEN <<before \o replacement[1] \o after>>
                     ELSE <<before \o replacement[1]>>
                          \o SubSeq(replacement, 2, n - 1)
                          \o <<replacement[n] \o after>>
        IN  SubSeq(body, 1, l - 1) \o lines \o SubSeq(body, l + 1, Len(body))

-----------------------------------------------------------------------------
(* installGenerateRoutesTool, part_001:112-151 (install.js:98-129).  The    *)
(* files under tools/ come with the package, so sourcePath exists.         *)
installGenerateRoutesTool(p) ==
  withScripts(wrote(p, "src/scripts/generateRoutes.ts", ToolFile("generateRoutes.ts")),
              <<<<"routes", "npx tsx src/scripts/generateRoutes.ts">>>>)

(* The templates of tools/componentGenerator/plop-templates/components *)
templateFiles == <<"component.tsx.hbs", "component.stories.tsx.hbs", "component.test.tsx.hbs">>

PlopScripts ==
  << <<"plop", "plop">>, <<"component", "plop component">>,
     <<"restructure", "plop restructure">>, <<"restructure-all", "plop restructure-all">> >>

RECURSIVE copyTemplates(_, _)
copyTemplates(p, names) ==
  IF names = <<>> THEN p
  ELSE copyTemplates(wrote(p, "plop-templates/component/" \o Head(names), ToolFile(Head(names))),
                     Tail(names))

(* part_001:265-301: plop is installed when package.json does not list it *)
installPlop(p, fail) ==
  IF checkPlopInstalled(p.pkg) THEN p
  ELSE IF "pnpm install -D plop" \in fail
    THEN logged(exec(p, "pnpm install -D plop"), <<"Error installing plop">>)
    ELSE [exec(p, "pnpm install -D plop") EXCEPT
            !.pkg = pnpmInstall(@, "devDependencies", <<"plop">>)]

(* installComponentGeneratorTool, part_001:203-314 (install.js:172-264) *)
installComponentGeneratorTool(p, fail) ==
  installPlop(withScripts(copyTemplates(wrote(p, "plopfile.mjs", ToolFile("plopfile.mjs")),
                                        templateFiles),
                          PlopScripts),
              fail)

(* The texts installTailwindSetup looks for and inserts *)
TailwindImport == <<"@import tailwindcss", ";">>
ViteTailwindImport == <<"import tailwindcss from '@tailwindcss/vite'">>
DefineConfig == "export default defineConfig({"
EnvironmentsConfig ==
  << <<DefineConfig>>, <<"environments:", "{">>, <<"ssr: {},">>, <<"},">> >>
StylesImport == <<"import styles from './styles.css?url'", ";">>
StylesLink == <<"<link rel=stylesheet href={styles}", "/>">>

(* part_001:470-488: the replacement of the plugins array, for an array    *)
(* written on one line                                                     *)
addTailwindPlugin(body) ==
  LET l == firstLineWith(body, <<"plugins: [">>)
  IN  IF l = 0 THEN body
      ELSE
        LET line == body[l]
            o == CHOOSE k \in 1..Len(line) :
                   line[k] = "plugins: [" /\ \A j \in 1..(k - 1) : line[j] # "plugins: ["
            closes == {k \in (o + 1)..Len(line) : line[k] = "]"}
        IN  IF closes = {} THEN body
            ELSE
              LET c == CHOOSE k \in closes : \A j \in closes : k <= j
                  plugins == SubSeq(line, o + 1, c - 1)
                  added == IF plugins # <<>> /\ plugins[Len(plugins)] = ","
                             THEN Append(plugins, "tailwindcss()")
                           ELSE IF plugins # <<>>
                             THEN plugins \o <<",", "tailwindcss()">>
                           ELSE <<"tailwindcss()">>
              IN  [body EXCEPT ![l] = SubSeq(line, 1, o) \o added \o SubSeq(line, c, Len(line))]

(* part_001:518-527: the link follows the head tag and the white space    *)
(* after it, so it stands on a line of its own when the tag ends its line  *)
addStylesLink(body) ==
  LET l == firstLineWith(body, <<"<head>">>)
  IN  IF l = 0 THEN body
      ELSE IF body[l][Len(body[l])] = "<head>"
        THEN insertLineAfter(body, l, StylesLink)
        ELSE replacePiece(body, "<head>", <<<<"<head>">> \o StylesLink>>)

(* part_001:414-444: step 2, styles.css *)
tailwindStyles(fs) ==
  IF existsFile(fs, "src/app/styles.css")
    THEN IF includesText(fs["src/app/styles.css"], <<"@import tailwindcss">>)
           THEN fs
           ELSE writeFile(fs, "src/app/styles.css", <<TailwindImport>> \o fs["src/app/styles.css"])
    ELSE writeFile(fs, "src/app/styles.css", <<TailwindImport>>)

(* part_001:449-456: the import of the plugin *)
viteImport(viteConfig) ==
  IF includesText(viteConfig, ViteTailwindImport)
    THEN viteConfig ELSE <<ViteTailwindImport>> \o viteConfig

(* part_001:458-468: the environments config *)
viteEnvironments(viteConfig) ==
  IF includesText(viteConfig, <<"environments:">>)
    THEN viteConfig ELSE replacePiece(viteConfig, DefineConfig, EnvironmentsConfig)

(* part_001:470-488: the plugins array *)
vitePlugins(viteConfig) ==
  IF includesText(viteConfig, <<"tailwindcss()">>)
    THEN viteConfig ELSE addTailwindPlugin(viteConfig)

(* part_001:446-491: step 3, vite.config.mts *)
tailwindViteConfig(viteConfig) == vitePlugins(viteEnvironments(viteImport(viteConfig)))

(* part_001:496-515: the import of the style sheet *)
documentImport(documentContent) ==
  IF includesText(documentContent, <<"import styles from './styles.css?url'">>)
    THEN documentContent ELSE <<StylesImport, <<>>>> \o documentContent

(* part_001:517-527: the link tag *)
documentLink(documentContent) ==
  IF includesText(documentContent, <<"<link rel=stylesheet href={styles}">>)
    THEN documentContent ELSE addStylesLink(documentContent)

tailwindDocumentAgain(documentContent) == addStylesLink(documentImport(documentContent))

(* part_001:493-530: step 4, Document.tsx *)
tailwindDocument(documentContent) == documentLink(documentImport(documentContent))

(* part_001:414-530: steps 2 to 4 *)
tailwindFiles(fs) ==
  [tailwindStyles(fs) EXCEPT !["vite.config.mts"] = tailwindViteConfig(@),
                             !["src/app/Document.tsx"] = tailwindDocument(@)]

(* part_001:532-566: step 5, the dependencies *)
tailwindDependencies(p, fail) ==
  IF checkTailwindInstalled(p.pkg) THEN p
  ELSE IF "pnpm install tailwindcss @tailwindcss/vite" \in fail
    THEN logged(exec(p, "pnpm install tailwindcss @tailwindcss/vite"),
                <<"Error installing dependencies">>)
    ELSE [exec(p, "pnpm install tailwindcss @tailwindcss/vite") EXCEPT
            !.pkg = pnpmInstall(@, "dependencies", <<"tailwindcss", "@tailwindcss/vite">>)]

(* installTailwindSetup, part_001:386-573 (install.js:324-479) *)
installTailwindSetup(p, fail) ==
  IF ~existsFile(p.files, "vite.config.mts")
    THEN exited(p, "Error: vite.config.mts not found")
  ELSE IF ~existsFile(p.files, "src/app/Document.tsx")
    THEN exited(p, "Error: Document.tsx not found")
  ELSE tailwindDependencies([p EXCEPT !.files = tailwindFiles(@)], fail)

(* installSeedToSqlTool, part_001:599-652 (install.js:502-546) *)
installSeedToSqlTool(p) ==
  withScripts(wrote(p, "src/scripts/seedToSql.mjs", ToolFile("seedToSql.mjs")),
              <<<<"seedtosql", "node src/scripts/seedToSql.mjs">>>>)

(* installMergePrismaTool, part_001:657-700 *)
installMergePrismaTool(p) ==
  withScripts(wrote(p, "src/scripts/mergePrismaSchema.mjs", ToolFile("mergePrismaSchema.mjs")),
              <<<<"merge", "node src/scripts/mergePrismaSchema.mjs">>>>)

-----------------------------------------------------------------------------
(* setupShadcn.js *)

ShadcnPackages ==
  <<"class-variance-authority", "clsx", "tailwind-merge", "lucide-react",
    "@radix-ui/react-slot", "tw-animate-css">>

ShadcnAdd ==
  "pnpm add class-variance-authority clsx tailwind-merge lucide-react @radix-ui/react-slot tw-animate-css"

(* stylesContent, setupShadcn.js:91-213, a line for each of its blocks *)
ShadcnStyles ==
  << TailwindImport, <<"@import tw-animate-css", ";">>, <<"@custom-variant dark">>,
     <<":root {", "--background: oklch(1 0 0);", "}">>,
     <<".dark {", "--background: oklch(0.145 0 0);", "}">>,
     <<"@theme inline {", "--color-background: var(--background);", "}">>,
     <<"@layer base {", "@apply bg-background text-foreground;", "}">> >>

(* cnUtilContent, setupShadcn.js:76-81 *)
CnUtil == <<<<"import { clsx, type ClassValue } from 'clsx'">>, <<"export function cn">>>>

PathImport == <<"import path from 'path'", ";">>

(* The import statements of the configuration files of the inputs *)
ImportPieces ==
  {"import { defineConfig } from 'vite'", "import { redwood } from 'rwsdk/vite'",
   "import tailwindcss from '@tailwindcss/vite'", "import path from 'path'"}

AliasConfig(open) ==
  << <<open>>, <<"resolve: {">>, <<"alias: {">>, <<"@: path.resolve(__dirname, ./src),">>,
     <<"},">>, <<"},">> >>

(* basicViteConfig, setupShadcn.js:425-435 *)
BasicViteConfig ==
  << <<"import { defineConfig } from 'vite'", ";">>, PathImport, <<>> >>
  \o AliasConfig(DefineConfig) \o << <<"});">> >>

(* setupShadcn.js:237-252: the link tag, when there is a head tag *)
shadcnLink(documentContent) ==
  IF ~includesText(documentContent, <<"<link rel=stylesheet href={styles}">>)
     /\ includesText(documentContent, <<"<head>">>)
    THEN addStylesLink(documentContent) ELSE documentContent

(* setupShadcn.js:218-278: Document.tsx; writing it anew when nothing      *)
(* changed is left out by the script and changes nothing                   *)
shadcnDocument(p) ==
  IF ~existsFile(p.files, "src/app/Document.tsx")
    THEN logged(p, <<"Document.tsx not found">>)
    ELSE [p EXCEPT !.files["src/app/Document.tsx"] = shadcnLink(documentImport(@))]

(* setupShadcn.js:59-284: step 2 *)
shadcnManual(p, fail) ==
  IF ShadcnAdd \in fail
    THEN logged(exec(p, ShadcnAdd), <<"Error setting up shadcn manually">>)
  ELSE
    LET added == [exec(p, ShadcnAdd) EXCEPT !.pkg = pnpmInstall(@, "dependencies", ShadcnPackages)]
        utils == wrote(added, "src/app/lib/utils.ts", CnUtil)
        styled == wrote(utils, "src/app/styles.css", ShadcnStyles)
    IN  shadcnDocument(styled)

(* JSON.parse(tsconfigContent) throws on a comment *)
parsesAsJson(body) == ~includesText(body, <<"//">>)

BaseUrl == <<"baseUrl", ": .,">>

(* The line that closes the object opened on line l *)
closingLine(body, l) ==
  LET closes == {c \in (l + 1)..Len(body) : body[c] # <<>> /\ body[c][1] \in {"}", "},"}}
  IN  IF closes = {} THEN Len(body) ELSE CHOOSE c \in closes : \A d \in closes : c <= d

(* setupShadcn.js:286-356: step 3, tsconfig.json *)
shadcnTsconfig(p) ==
  IF ~existsFile(p.files, "tsconfig.json")
    THEN logged(p, <<"Error updating tsconfig.json">>)
  ELSE
    LET tsconfigContent == p.files["tsconfig.json"]
        l == firstLineWith(tsconfigContent, <<"compilerOptions">>)
    IN  IF parsesAsJson(tsconfigContent)
          THEN IF l = 0
                 THEN wrote(p, "tsconfig.json",
                            SubSeq(tsconfigContent, 1, Len(tsconfigContent) - 1)
                            \o << <<"compilerOptions", "{">>, BaseUrl, <<"}">>,
                                  tsconfigContent[Len(tsconfigContent)] >>)
               ELSE IF includesText(tsconfigContent, <<"baseUrl">>) THEN p
               ELSE wrote(p, "tsconfig.json",
                          insertLineAfter(tsconfigContent,
                                          closingLine(tsconfigContent, l) - 1, BaseUrl))
        ELSE IF l # 0
          THEN IF includesText(tsconfigContent, <<"baseUrl">>) THEN p
               ELSE wrote(p, "tsconfig.json", insertLineAfter(tsconfigContent, l, BaseUrl))
        ELSE wrote(p, "tsconfig.json", << <<"{">>, <<"compilerOptions", "{">>, BaseUrl, <<"}">>, <<"}">> >>)

(* possibleViteConfigPaths, setupShadcn.js:362-375 *)
possibleViteConfigPaths == <<"vite.config.ts", "vite.config.js", "vite.config.mts", "vite.config.mjs">>

viteConfigPath(fs) ==
  LET found == {k \in 1..Len(possibleViteConfigPaths) : existsFile(fs, possibleViteConfigPaths[k])}
  IN  IF found = {} THEN ""
      ELSE possibleViteConfigPaths[CHOOSE k \in found : \A j \in found : k <= j]

hasImport(body) ==
  \E l \in 1..Len(body) : \E k \in 1..Len(body[l]) : body[l][k] \in ImportPieces

firstImportLine(body) ==
  CHOOSE l \in 1..Len(body) :
    /\ \E k \in 1..Len(body[l]) : body[l][k] \in ImportPieces
    /\ \A m \in 1..(l - 1) : \A k \in 1..Len(body[m]) : body[m][k] \notin ImportPieces

(* setupShadcn.js:384-396: the import of path *)
pathImport(viteConfig) ==
  IF includesText(viteConfig, <<"import path from 'path'">>) THEN viteConfig
  ELSE IF hasImport(viteConfig)
    THEN insertLineAfter(viteConfig, firstImportLine(viteConfig) - 1, PathImport)
  ELSE <<PathImport>> \o viteConfig

(* setupShadcn.js:398-411: the resolve alias *)
resolveAlias(viteConfig) ==
  IF includesText(viteConfig, <<DefineConfig>>)
    THEN replacePiece(viteConfig, DefineConfig, AliasConfig(DefineConfig))
  ELSE IF includesText(viteConfig, <<"export default {">>)
    THEN replacePiece(viteConfig, "export default {", AliasConfig("export default {"))
  ELSE viteConfig

(* setupShadcn.js:380-413: the resolve alias of an existing Vite config *)
shadcnAlias(viteConfig) == resolveAlias(pathImport(viteConfig))

(* setupShadcn.js:358-446: step 4 *)
shadcnViteConfig(p) ==
  IF viteConfigPath(p.files) = "" THEN wrote(p, "vite.config.ts", BasicViteConfig)
  ELSE
    LET viteConfig == p.files[viteConfigPath(p.files)]
    IN  IF includesText(viteConfig, <<"alias: {">>)
           \/ includesText(viteConfig, <<"@: path.resolve(__dirname, ./src),">>)
          THEN p
          ELSE wrote(p, viteConfigPath(p.files), shadcnAlias(viteConfig))

(* execSync threw in a try block: the catch logs and ends the process *)
caught(p, message) ==
  IF p.exit # NoExit THEN [p EXCEPT !.log = Append(@, message)] ELSE p

(* setupShadcn.js:29-57: step 1.  `npx graftthis tailwind` runs            *)
(* installTailwindSetup on the project; execSync throws when it fails.     *)
shadcnTailwind(p, fail) ==
  IF checkTailwindInstalled(p.pkg) THEN p
  ELSE IF "npx graftthis tailwind" \in fail
    THEN exited(exec(p, "npx graftthis tailwind"), "An error occurred during setup")
  ELSE caught(installTailwindSetup(exec(p, "npx graftthis tailwind"), fail),
              "An error occurred during setup")

(* setupShadcn.js:59-446: steps 2 to 4 *)
shadcnSteps(p, fail) ==
  IF p.exit # NoExit THEN p
  ELSE shadcnViteConfig(shadcnTsconfig(shadcnManual(p, fail)))

(* setupShadcn, setupShadcn.js:13-463 *)
setupShadcn(p, fail) ==
  shadcnSteps(shadcnTailwind(wrote(p, "components.json", ToolFile("components.json")), fail),
              fail)

-----------------------------------------------------------------------------
(* tools/email/index.js (part_004) *)

(* a + b on texts: the last line of a continues with the first line of b *)
concat(a, b) ==
  SubSeq(a, 1, Len(a) - 1) \o <<a[Len(a)] \o b[1]>> \o Tail(b)

(* text.endsWith('\n') *)
endsWithNewline(body) == Len(body) > 1 /\ body[Len(body)] = <<>>

(* part_004:70-75: the text with the line added at its end *)
withEnvLine(envContent, line) ==
  concat(concat(envContent, IF endsWithNewline(envContent) THEN <<<<>>>> ELSE <<<<>>, <<>>>>),
         <<line, <<>>>>)

(* part_004:84-94: .env.example, when it exists *)
addToEnvExample(fs) ==
  IF existsFile(fs, ".env.example") /\ ~includesText(fs[".env.example"], <<"RESEND_API", "=">>)
    THEN [fs EXCEPT ![".env.example"] =
            withEnvLine(@, <<"RESEND_API", "=", "your_resend_api_key">>)]
    ELSE fs

(* part_004:63-81: .env *)
addToEnv(fs) ==
  IF includesText(readFile(fs, ".env"), <<"RESEND_API", "=">>) THEN fs
  ELSE writeFile(fs, ".env", withEnvLine(readFile(fs, ".env"), <<"RESEND_API", "=">>))

(* addToEnvFile, part_004:60-99 *)
addToEnvFile(fs) == addToEnvExample(addToEnv(fs))

(* emailFileContent, part_004:116-120 *)
EmailFile == <<<<"import { Resend } from 'resend'">>, <<"export const resend = new Resend(env.RESEND_API)">>, <<>>>>

(* answer.toLowerCase() of part_004:40 *)
toLowerCase(answer) ==
  IF answer \in {"y", "Y"} THEN "y" ELSE IF answer \in {"yes", "Yes", "YES"} THEN "yes" ELSE answer

(* part_004:36-48: the question about react-email *)
askReactEmail(p, fail, answer) ==
  IF toLowerCase(answer) \in {"y", "yes"}
    THEN IF "npx create-email@latest" \in fail
           THEN exited(exec(p, "npx create-email@latest"), "Error setting up email")
           ELSE exec(p, "npx create-email@latest")
    ELSE p

(* setupEmail, part_004:22-55; answer is what the user types at the prompt *)
setupEmail(p, fail, answer) ==
  IF "pnpm add resend" \in fail
    THEN exited(exec(p, "pnpm add resend"), "Error setting up email")
  ELSE askReactEmail(
         wrote([exec(p, "pnpm add resend") EXCEPT
                  !.pkg = pnpmInstall(@, "dependencies", <<"resend">>),
                  !.files = addToEnvFile(@)],
               "src/app/lib/email.ts", EmailFile),
         fail, answer)

(* installEmailTool, part_001:705-723: execSync of the email script *)
installEmailTool(p, fail, answer) ==
  IF "node tools/email/index.js" \in fail
    THEN exited(exec(p, "node tools/email/index.js"), "Error setting up email functionality")
  ELSE caught(setupEmail(exec(p, "node tools/email/index.js"), fail, answer),
              "Error setting up email functionality")

-----------------------------------------------------------------------------
(* The command-line interface: install.js and its later version            *)
(* rwsdk-tools (part_001).                                                 *)

CliTools == {"install.js", "rwsdk-tools"}

(* The cases of the switch of main(), install.js:38-61, part_001:38-67 *)
cases(script) ==
  IF script = "install.js"
    THEN {"routes", "component", "tailwind", "shadcn", "seedtosql", "help"}
    ELSE {"routes", "component", "tailwind", "shadcn", "seedtosql", "merge", "email", "help"}

(* installAllTools, install.js:82-93, part_001:94-107 *)
installAllTools(script) ==
  IF script = "install.js"
    THEN <<"routes", "component", "tailwind", "shadcn", "seedtosql">>
    ELSE <<"routes", "component", "tailwind", "shadcn", "seedtosql", "merge", "email">>

(* The project as the running script sees it *)
project ==
  [files |-> files, pkg |-> packageJson, exec |-> execLog, log |-> toolLog, exit |-> toolExit]

(* An installer returns to main(), or has called process.exit(1) *)
Installed(name, p) ==
  /\ files' = p.files
  /\ packageJson' = p.pkg
  /\ execLog' = p.exec
  /\ toolLog' = p.log
  /\ toolExit' = p.exit
  /\ ran' = Append(ran, name)
  /\ IF p.exit # NoExit
       THEN tpc' = "exited" /\ queue' = queue
       ELSE tpc' = tpc /\ queue' = Tail(queue)
  /\ UNCHANGED <<tool, argv, failing, addonVars, plopVars>>
  /\ UNCHANGED <<routeVars, seedVars>>

mainCalls(name) == tool \in CliTools /\ tpc = "install" /\ queue # <<>> /\ Head(queue) = name

(* main(), install.js:27-62, part_001:27-68 *)
Main ==
  /\ tool \in CliTools /\ tpc = "main"
  /\ IF argv = <<>>
       THEN /\ queue' = installAllTools(tool)
            /\ tpc' = "install"
            /\ UNCHANGED <<ran, toolLog, toolExit>>
     ELSE IF argv[1] = "help"
       THEN /\ ran' = <<"help">>
            /\ tpc' = "install"
            /\ UNCHANGED <<queue, toolLog, toolExit>>
     ELSE IF argv[1] \in cases(tool)
       THEN /\ queue' = <<argv[1]>>
            /\ tpc' = "install"
            /\ UNCHANGED <<ran, toolLog, toolExit>>
     ELSE /\ toolLog' = <<"Unknown command: " \o argv[1]>>
          /\ ran' = <<"help">>
          /\ toolExit' = 1
          /\ tpc' = "exited"
          /\ UNCHANGED queue
  /\ UNCHANGED <<tool, argv, files, packageJson, failing, execLog, addonVars, plopVars>>
  /\ UNCHANGED <<routeVars, seedVars>>

InstallGenerateRoutesTool ==
  mainCalls("routes") /\ Installed("routes", installGenerateRoutesTool(project))

InstallComponentGeneratorTool ==
  mainCalls("component") /\ Installed("component", installComponentGeneratorTool(project, failing))

InstallTailwindSetup ==
  mainCalls("tailwind") /\ Installed("tailwind", installTailwindSetup(project, failing))

(* installShadcnSetup, part_001:578-594: install() starts the asynchronous *)
(* setupShadcn, which goes on at its first await once main() has returned  *)
InstallShadcnSetup ==
  mainCalls("shadcn") /\ Installed("shadcn", project)

InstallSeedToSqlTool ==
  mainCalls("seedtosql") /\ Installed("seedtosql", installSeedToSqlTool(project))

InstallMergePrismaTool ==
  mainCalls("merge") /\ Installed("merge", installMergePrismaTool(project))

InstallEmailTool ==
  mainCalls("email") /\ Installed("email", installEmailTool(project, failing, answers[1]))

(* main() returns: the pending setupShadcn runs, or the process ends *)
Return ==
  /\ tool \in CliTools /\ tpc = "install" /\ queue = <<>>
  /\ IF \E k \in 1..Len(ran) : ran[k] = "shadcn"
       THEN tpc' = "shadcn" /\ UNCHANGED toolExit
       ELSE tpc' = "done" /\ toolExit' = 0
  /\ UNCHANGED <<tool, argv, files, packageJson, failing, execLog, toolLog, cliVars,
                 addonVars, plopVars>>
  /\ UNCHANGED <<routeVars, seedVars>>

(* The script has run to its end or has called process.exit(1) *)
Ended(p) ==
  /\ files' = p.files
  /\ packageJson' = p.pkg
  /\ execLog' = p.exec
  /\ toolLog' = p.log
  /\ toolExit' = IF p.exit # NoExit THEN p.exit ELSE 0
  /\ tpc' = IF p.exit # NoExit THEN "exited" ELSE "done"
  /\ UNCHANGED <<tool, argv, failing, cliVars, addonVars, plopVars>>
  /\ UNCHANGED <<routeVars, seedVars>>

(* setupShadcn(), run by the command-line interface or as a script *)
SetupShadcn == tpc = "shadcn" /\ Ended(setupShadcn(project, failing))

-----------------------------------------------------------------------------
(* Projects the installers are run in *)

(* The files of a project from pairs <<path, text>> *)
Files(pairs) ==
  [q \in {x[1] : x \in pairs} |-> (CHOOSE x \in pairs : x[1] = q)[2]]

(* vite.config.mts of the RedwoodSDK starter *)
StarterViteConfig ==
  << <<"import { defineConfig } from 'vite'", ";">>,
     <<"import { redwood } from 'rwsdk/vite'", ";">>,
     <<>>,
     <<DefineConfig>>,
     <<"plugins: [", "redwood()", "]", ",">>,
     <<"});">> >>

(* src/app/Document.tsx of the starter *)
StarterDocument ==
  << <<"export const Document = ({ children }) => (">>,
     <<"<html lang=en>">>,
     <<"<head>">>,
     <<"<title>", "App", "</title>">>,
     <<"</head>">>,
     <<"<body>", "{children}", "</body>">>,
     <<"</html>">>,
     <<");">> >>

(* tsconfig.json of the starter, which holds a comment *)
StarterTsconfig ==
  << <<"{">>, <<"compilerOptions", ": {">>, <<"//", "https://www.typescriptlang.org/tsconfig">>,
     <<"target", ": es2021,">>, <<"},">>, <<"}">> >>

PlainTsconfig == << <<"{">>, <<"compilerOptions", ": {">>, <<"target", ": es2021,">>, <<"},">>, <<"}">> >>

(* A styles.css a developer wrote *)
CustomStyles == << <<"body {", "color: rebeccapurple;", "}">>, <<".card {", "padding: 1rem;", "}">> >>

(* A .env that defines keys of its own *)
CustomEnv == << <<"DATABASE_URL", "=", "file:dev.db">>, <<"MY_", "API_KEY", "=", "secret">>, <<>> >>

EmptyProject == Files({})

FreshProject ==
  Files({<<"vite.config.mts", StarterViteConfig>>, <<"src/app/Document.tsx", StarterDocument>>,
         <<"tsconfig.json", StarterTsconfig>>})

StyledProject ==
  Files({<<"vite.config.mts", StarterViteConfig>>, <<"src/app/Document.tsx", StarterDocument>>,
         <<"tsconfig.json", PlainTsconfig>>, <<"src/app/styles.css", CustomStyles>>,
         <<".env", CustomEnv>>})

(* A project Tailwind was set up in, with nothing else in styles.css *)
TailwindProject ==
  Files({<<"vite.config.mts", tailwindViteConfig(StarterViteConfig)>>,
         <<"src/app/Document.tsx", tailwindDocument(StarterDocument)>>,
         <<"tsconfig.json", StarterTsconfig>>, <<"src/app/styles.css", <<TailwindImport>>>>})

Projects == {EmptyProject, FreshProject, StyledProject, TailwindProject}

BarePackageJson == PackageJson(2, <<JsonText("name", "app")>>)

StarterPackageJson ==
  PackageJson(2, <<JsonText("name", "app"),
                   JsonObject("scripts", << <<"dev", "vite dev">>, <<"routes", "echo routes">> >>),
                   JsonObject("dependencies", << <<"rwsdk", "0.0.80">> >>)>>)

WidePackageJson ==
  PackageJson(4, <<JsonText("name", "app"),
                   JsonObject("scripts", << <<"dev", "vite dev">> >>),
                   JsonObject("devDependencies", << <<"plop", "4.0.1">> >>),
                   JsonText("private", "true")>>)

TailwindPackageJson ==
  PackageJson(0, <<JsonObject("dependencies",
                              << <<"tailwindcss", "4.1.0">>, <<"@tailwindcss/vite", "4.1.0">> >>),
                   JsonObject("scripts", << <<"seedtosql", "node src/scripts/seedToSql.mjs">> >>),
                   JsonText("type", "module")>>)

PackageJsons ==
  {NoPackageJson, BarePackageJson, StarterPackageJson, WidePackageJson, TailwindPackageJson}

(* The shell commands that can fail, at most one of them in a run *)
Commands ==
  {"pnpm install -D plop", "pnpm install tailwindcss @tailwindcss/vite", ShadcnAdd,
   "npx graftthis tailwind", "node tools/email/index.js", "pnpm add resend"}

FailingSets == {{}} \cup {{c} : c \in Commands}

(* The commands of the README usage and two more *)
Documented == {"routes", "component", "tailwind", "seedtosql", "merge", "email", "windsurf", "help"}

Arguments == {<<>>} \cup {<<c>> : c \in Documented \cup {"shadcn", "bogus"}}

Answers == {<<"y">>, <<"n">>, <<"Yes">>}

CliInit ==
  /\ RoutesIdle
  /\ SeedIdle
  /\ tool \in CliTools
  /\ tpc = "main"
  /\ argv \in Arguments
  /\ files \in Projects
  /\ packageJson \in PackageJsons
  /\ failing \in FailingSets
  /\ execLog = <<>>
  /\ toolLog = <<>>
  /\ toolExit = NoExit
  /\ queue = <<>>
  /\ ran = <<>>
  /\ addon = NoAddon
  /\ addonDir = "absent"
  /\ addonConfig = <<>>
  /\ answers \in Answers
  /\ sourceContent = <<>>
  /\ dirs = {}

CliNext ==
  \/ Main
  \/ InstallGenerateRoutesTool
  \/ InstallComponentGeneratorTool
  \/ InstallTailwindSetup
  \/ InstallShadcnSetup
  \/ InstallSeedToSqlTool
  \/ InstallMergePrismaTool
  \/ InstallEmailTool
  \/ Return
  \/ SetupShadcn

CliSpec == CliInit /\ [][CliNext]_vars

-----------------------------------------------------------------------------
(* `tailwind` run on a project, and run again on what the run has left *)

(* vite.config.mts with a trailing comma in the plugins array, with an     *)
(* empty array and without one                                             *)
CommaViteConfig ==
  << <<"import { defineConfig } from 'vite'", ";">>,
     <<DefineConfig>>,
     <<"plugins: [", "redwood()", ",", "]", ",">>,
     <<"});">> >>

EmptyPluginsViteConfig == << <<DefineConfig>>, <<"plugins: [", "]", ",">>, <<"});">> >>

BareViteConfig == << <<"export default {}", ";">> >>

(* Document.tsx with the head on one line, and without a head *)
InlineHeadDocument ==
  << <<"export const Document = ({ children }) => (">>,
     <<"<html>", "<head>", "<title>", "App", "</title>", "</head>">>,
     <<"<body>", "{children}", "</body>", "</html>">>,
     <<");">> >>

HeadlessDocument == << <<"export const Document = ({ children }) => children", ";">> >>

TailwindProjects ==
  Projects
  \cup {Files({<<"vite.config.mts", v>>, <<"src/app/Document.tsx", d>>}) :
          v \in {StarterViteConfig, CommaViteConfig, EmptyPluginsViteConfig, BareViteConfig},
          d \in {StarterDocument, InlineHeadDocument, HeadlessDocument}}
  \cup {Files({<<"vite.config.mts", StarterViteConfig>>}),
        Files({<<"src/app/Document.tsx", StarterDocument>>,
               <<"src/app/styles.css", CustomStyles>>})}

(* The command is given once more in the same project directory: a new     *)
(* process, the files and package.json as the last one left them           *)
RunAgain ==
  /\ tool \in CliTools /\ tpc \in {"done", "exited"}
  /\ tpc' = "main"
  /\ queue' = <<>>
  /\ ran' = <<>>
  /\ execLog' = <<>>
  /\ toolLog' = <<>>
  /\ toolExit' = NoExit
  /\ UNCHANGED <<tool, argv, files, packageJson, failing, addonVars, plopVars>>
  /\ UNCHANGED <<routeVars, seedVars>>

TailwindInit ==
  /\ RoutesIdle
  /\ SeedIdle
  /\ tool \in CliTools
  /\ tpc = "main"
  /\ argv = <<"tailwind">>
  /\ files \in TailwindProjects
  /\ packageJson \in {StarterPackageJson, TailwindPackageJson}
  /\ failing \in {{}, {"pnpm install tailwindcss @tailwindcss/vite"}}
  /\ execLog = <<>>
  /\ toolLog = <<>>
  /\ toolExit = NoExit
  /\ queue = <<>>
  /\ ran = <<>>
  /\ addon = NoAddon
  /\ addonDir = "absent"
  /\ addonConfig = <<>>
  /\ answers = <<"n">>
  /\ sourceContent = <<>>
  /\ dirs = {}

TailwindNext ==
  \/ Main
  \/ InstallTailwindSetup
  \/ Return
  \/ RunAgain

TailwindSpec == TailwindInit /\ [][TailwindNext]_vars

-----------------------------------------------------------------------------
(* The windsurf tool, listed in tools/generateRoutes/README.md:100-203 *)

(* The files the package ships under tools/windsurf/rules and              *)
(* tools/windsurf/workflows, in the order readdirSync lists them, each     *)
(* with the path copyFiles gives it in the project                         *)
Shipped(name) == <<"shipped", name>>

sourceRules ==
  << <<".windsurf/rules/code-quality.md", <<Shipped("code-quality.md")>>>>,
     <<".windsurf/rules/naming/components.md", <<Shipped("components.md")>>>> >>

sourceWorkflows ==
  << <<".windsurf/workflows/pre-commit.md", <<Shipped("pre-commit.md")>>>> >>

(* copyFiles, README.md:180-200, over the files of a source directory and  *)
(* of its subdirectories                                                   *)
RECURSIVE copyFiles(_, _)
copyFiles(fs, source) ==
  IF source = <<>> THEN fs
  ELSE copyFiles(writeFile(fs, Head(source)[1], Head(source)[2]), Tail(source))

(* setupWindsurf, README.md:114-173 *)
setupWindsurf(p) ==
  [p EXCEPT !.files = copyFiles(copyFiles(@, sourceRules), sourceWorkflows)]

SetupWindsurf == tool = "windsurf" /\ tpc = "windsurf" /\ Ended(setupWindsurf(project))

(* What a developer keeps under .windsurf: files with the names of the     *)
(* shipped ones, edited or not, and files of their own                     *)
Edited(name) == <<"edited", name>>

WindsurfPaths ==
  {sourceRules[k][1] : k \in 1..Len(sourceRules)}
  \cup {sourceWorkflows[k][1] : k \in 1..Len(sourceWorkflows)}
  \cup {".windsurf/rules/team.md", ".windsurf/workflows/release.md"}

WindsurfTexts ==
  {<<Shipped("code-quality.md")>>, <<Shipped("components.md")>>, <<Shipped("pre-commit.md")>>,
   <<Edited("code-quality.md")>>, <<Edited("pre-commit.md")>>, <<Edited("team.md")>>}

(* The projects: any files under .windsurf, at most MaxFiles of them *)
WindsurfProjects ==
  UNION {[paths -> WindsurfTexts] :
           paths \in {s \in SUBSET WindsurfPaths : Cardinality(s) <= MaxFiles}}

WindsurfInit ==
  /\ RoutesIdle
  /\ SeedIdle
  /\ tool = "windsurf"
  /\ tpc = "windsurf"
  /\ argv = <<"windsurf">>
  /\ files \in WindsurfProjects
  /\ packageJson \in {NoPackageJson, StarterPackageJson}
  /\ failing = {}
  /\ execLog = <<>>
  /\ toolLog = <<>>
  /\ toolExit = NoExit
  /\ queue = <<>>
  /\ ran = <<>>
  /\ addon = NoAddon
  /\ addonDir = "absent"
  /\ addonConfig = <<>>
  /\ answers = <<>>
  /\ sourceContent = <<>>
  /\ dirs = {}

WindsurfNext == SetupWindsurf

WindsurfSpec == WindsurfInit /\ [][WindsurfNext]_vars

-----------------------------------------------------------------------------
(* setupShadcn.js run as a script *)

ShadcnInit ==
  /\ RoutesIdle
  /\ SeedIdle
  /\ tool = "setupShadcn.js"
  /\ tpc = "shadcn"
  /\ argv = <<>>
  /\ files \in Projects
  /\ packageJson \in PackageJsons
  /\ failing \in FailingSets
  /\ execLog = <<>>
  /\ toolLog = <<>>
  /\ toolExit = NoExit
  /\ queue = <<>>
  /\ ran = <<>>
  /\ addon = NoAddon
  /\ addonDir = "absent"
  /\ addonConfig = <<>>
  /\ answers = <<>>
  /\ sourceContent = <<>>
  /\ dirs = {}

ShadcnNext == SetupShadcn

ShadcnSpec == ShadcnInit /\ [][ShadcnNext]_vars

-----------------------------------------------------------------------------
(* addon.jsonc: its keys and their JSON values *)

JsonBoolean(b) == [type |-> "boolean", bool |-> b]
JsonString(text) == [type |-> "string", text |-> text]
JsonArray(items) == [type |-> "array", items |-> items]
JsonRequired(components) == [type |-> "object", required |-> TRUE, components |-> components]
JsonStyles(source, directive) ==
  [type |-> "object", source |-> source, injectInto |-> "src/app/styles.css",
   injectDirective |-> directive]
JsonRoutes(file, prefix) == [type |-> "object", file |-> file, prefix |-> prefix]

(* if (addonConfig[key]): the key is there and its value is not false *)
truthy(config, key) ==
  key \in DOMAIN config /\ (config[key].type = "boolean" => config[key].bool)

(* config[key] = value for a key the object may or may not hold *)
setKey(config, key, value) ==
  [k \in DOMAIN config \cup {key} |-> IF k = key THEN value ELSE config[k]]

(* filterPackages, generateAddonConfig.mjs:384-414 *)
excludeAlways ==
  {"rwsdk", "react", "@", "@redwoodsdk", "react-dom", "next", "next-themes", "tailwindcss"}

excludeWithShadcn ==
  {"lucide-react", "class-variance-authority", "clsx", "tailwind-merge", "@radix-ui"}

filterPackages(packages, usingShadcn) ==
  SelectSeq(packages,
            LAMBDA pkg : pkg \notin excludeAlways
                         /\ ~(usingShadcn /\ pkg \in excludeWithShadcn))

(* generateAddonConfig.mjs:456-469: name, description, version and routes *)
configRoutes(found) ==
  LET named == ("name" :> JsonString(found.name))
               @@ ("description" :> JsonString(found.name \o " add-on for RWSDK"))
               @@ ("version" :> JsonString("0.1.0"))
  IN  IF found.routes
        THEN setKey(named, "routes",
                    JsonRoutes("routes.ts",
                               IF found.prefix # "" THEN "/" \o found.prefix ELSE ""))
        ELSE named

(* generateAddonConfig.mjs:471-493: packages *)
configPackages(config, found) ==
  IF found.imports # <<>> /\ filterPackages(found.imports, found.components # <<>>) # <<>>
    THEN setKey(config, "packages",
                JsonArray(filterPackages(found.imports, found.components # <<>>)))
    ELSE config

(* generateAddonConfig.mjs:495-498: env *)
configEnv(config, found) ==
  IF found.env # <<>> THEN setKey(config, "env", JsonArray(found.env)) ELSE config

(* generateAddonConfig.mjs:500-520: shadcn and tailwindcss *)
configFrameworks(config, found) ==
  IF found.components # <<>>
    THEN setKey(setKey(config, "shadcn", JsonRequired(found.components)),
                "tailwindcss", JsonRequired(<<>>))
  ELSE IF found.applies
    THEN setKey(config, "tailwindcss", JsonRequired(<<>>))
  ELSE config

(* generateAddonConfig.mjs:522-536: styles and postInstallMessage *)
configStyles(config, found) ==
  setKey(IF found.css
           THEN setKey(config, "styles",
                       JsonStyles("src/app/addons/" \o found.name \o "/styles.css",
                                  "@import './addons/" \o found.name \o "/styles.css';"))
           ELSE config,
         "postInstallMessage", JsonString(found.name \o " add-on installed successfully."))

(* generateAddonConfig, generateAddonConfig.mjs:420-537, on what the       *)
(* searches of lines 421-452 found in the add-on directory.  The file      *)
(* writeAddonConfig writes gives this object back when installAddon strips *)
(* its comments and parses it: the values hold no //.                      *)
generateAddonConfig(found) ==
  configStyles(configFrameworks(configEnv(configPackages(configRoutes(found), found), found),
                                found),
               found)

-----------------------------------------------------------------------------
(* installAddon.mjs *)

(* runCommand, installAddon.mjs:73-90, for a command whose effect on the   *)
(* project is r: false when execSync throws, which it does when the        *)
(* command cannot run or ends with a status other than 0                   *)
commandFails(command, fail, r) == command \in fail \/ r.exit # NoExit

runCommand(p, command, fail, r) ==
  IF command \in fail
    THEN logged(exec(p, command), <<"Command failed: " \o command>>)
  ELSE [files |-> r.files, pkg |-> r.pkg, exec |-> Append(p.exec, command),
        log |-> IF r.exit # NoExit THEN Append(p.log, "Command failed: " \o command) ELSE p.log,
        exit |-> NoExit]

(* packages.join(' ') *)
joinPackages(packages) == join(packages, " ")

(* installPackages, installAddon.mjs:154-159 *)
installPackages(p, packages, fail) ==
  IF packages = <<>> THEN p
  ELSE runCommand(p, "pnpm add " \o joinPackages(packages), fail,
                  [p EXCEPT !.pkg = pnpmInstall(@, "dependencies", packages)])

(* installAddon.mjs:176-182: the loop over envVars *)
RECURSIVE envLoop(_, _)
envLoop(envContent, envVars) ==
  IF envVars = <<>> THEN envContent
  ELSE envLoop(IF includesText(envContent, <<Head(envVars), "=">>)
                 THEN envContent
                 ELSE concat(envContent, <<<<>>, <<Head(envVars), "=">>>>),
               Tail(envVars))

(* addEnvVariables, installAddon.mjs:164-189 *)
addEnvVariables(fs, envVars) ==
  IF envLoop(readFile(fs, ".env"), envVars) = readFile(fs, ".env") THEN fs
  ELSE writeFile(fs, ".env", envLoop(readFile(fs, ".env"), envVars))

(* stylesContent.trim() === '' *)
blank(body) == \A l \in 1..Len(body) : body[l] = <<>>

(* installAddon.mjs:213-229: the content with the directive added *)
withDirective(stylesContent, injectDirective) ==
  IF blank(stylesContent)
    THEN concat(stylesContent,
                <<TailwindImport, <<"@import tw-animate-css", ";">>, <<injectDirective>>, <<>>>>)
    ELSE concat(stylesContent, <<<<>>, <<injectDirective>>>>)

(* injectStyles, installAddon.mjs:194-235 *)
injectStyles(p, styles) ==
  IF styles.source = "" \/ styles.injectInto = "" \/ styles.injectDirective = ""
    THEN logged(p, <<"Missing style information in addon.jsonc">>)
  ELSE IF includesText(readFile(p.files, styles.injectInto), <<styles.injectDirective>>)
    THEN p
  ELSE wrote(p, styles.injectInto,
             withDirective(readFile(p.files, styles.injectInto), styles.injectDirective))

(* addonName.charAt(0).toUpperCase() + addonName.slice(1) + 'Routes' *)
importNameOf(addonName) ==
  IF addonName = "suggest" THEN "SuggestRoutes"
  ELSE IF addonName = "blog" THEN "BlogRoutes"
  ELSE addonName \o "Routes"

(* installAddon.mjs:261: the file name without its .ts or .tsx *)
fileBaseOf(file) == IF file \in {"routes.ts", "routes.tsx"} THEN "routes" ELSE file

importPiece(importName) == "import " \o importName \o " from"
spreadPiece(importName) == "..." \o importName \o ","
prefixPiece(prefix, importName) == "prefix(" \o prefix \o ", " \o importName \o "),"

(* The pieces of a worker.tsx that start with `import ` *)
isImport(piece, importName) ==
  piece \in {"import { defineApp } from 'rwsdk/worker'", "import { render, route } from 'rwsdk/router'",
             "import { Document } from './app/Document'", importPiece(importName)}

(* installAddon.mjs:268-288: the import goes after the line of the last    *)
(* `import `, and to the top when that line is the last of the file or     *)
(* there is no import                                                      *)
withImport(workerContent, addonName, file) ==
  LET imports == {l \in 1..Len(workerContent) :
                    \E k \in 1..Len(workerContent[l]) :
                      isImport(workerContent[l][k], importNameOf(addonName))}
      statement == <<importPiece(importNameOf(addonName)),
                     "./app/addons/" \o addonName \o "/" \o fileBaseOf(file), ";">>
  IN  IF includesText(workerContent, <<importPiece(importNameOf(addonName))>>)
        THEN workerContent
      ELSE IF imports = {} \/ Len(workerContent) \in imports
        THEN <<statement>> \o workerContent
      ELSE insertLineAfter(workerContent,
                           CHOOSE l \in imports : \A m \in imports : m <= l, statement)

(* installAddon.mjs:293-297, routeCheckPattern.test(workerContent).  With  *)
(* a prefix the pattern is the prefix call; without one the template       *)
(* literal gives the pattern ...Name, three characters of any kind and the *)
(* import name, which the import statement matches as well.                *)
routeCheck(workerContent, prefix, importName) ==
  IF prefix # ""
    THEN includesText(workerContent, <<prefixPiece(prefix, importName)>>)
    ELSE \E l \in 1..Len(workerContent) : \E k \in 1..Len(workerContent[l]) :
           \/ workerContent[l][k] \in {importPiece(importName), spreadPiece(importName)}
           \/ \E other \in {"/suggest", "/blog"} :
                workerContent[l][k] = prefixPiece(other, importName)

(* The line and the place in it of the first `]` after `render: [`, <<0,   *)
(* 0>> when there is none                                                  *)
renderEnd(workerContent) ==
  LET r == firstLineWith(workerContent, <<"render: [">>)
      o == CHOOSE k \in 1..Len(workerContent[r]) : workerContent[r][k] = "render: ["
      places == UNION {{<<l, k>> : k \in 1..Len(workerContent[l])} :
                         l \in 1..Len(workerContent)}
      ends == {e \in places :
                 /\ workerContent[e[1]][e[2]] = "]"
                 /\ e[1] > r \/ (e[1] = r /\ e[2] > o)}
  IN  IF r = 0 \/ ends = {} THEN <<0, 0>>
      ELSE CHOOSE e \in ends :
             \A f \in ends : e[1] < f[1] \/ (e[1] = f[1] /\ e[2] <= f[2])

(* installAddon.mjs:299-320: the route statement and a new line are put    *)
(* right before that `]`                                                   *)
insertRoute(workerContent, e, statement) ==
  IF e = <<0, 0>> THEN workerContent
  ELSE SubSeq(workerContent, 1, e[1] - 1)
       \o << SubSeq(workerContent[e[1]], 1, e[2] - 1) \o <<statement>>,
             SubSeq(workerContent[e[1]], e[2], Len(workerContent[e[1]])) >>
       \o SubSeq(workerContent, e[1] + 1, Len(workerContent))

(* installAddon.mjs:287-327: the route in the render array *)
withRoute(workerContent, prefix, importName) ==
  IF routeCheck(workerContent, prefix, importName) THEN workerContent
  ELSE insertRoute(workerContent, renderEnd(workerContent),
                   IF prefix # "" THEN prefixPiece(prefix, importName)
                   ELSE spreadPiece(importName))

(* addRoutes, installAddon.mjs:242-334 *)
addRoutes(p, addonName, routesConfig) ==
  IF routesConfig.file = ""
    THEN logged(p, <<"Missing routes file information in addon.jsonc">>)
  ELSE IF ~existsFile(p.files, "src/worker.tsx")
    THEN logged(p, <<"worker.tsx not found">>)
  ELSE [p EXCEPT !.files["src/worker.tsx"] =
          withRoute(withImport(@, addonName, routesConfig.file), routesConfig.prefix,
                    importNameOf(addonName))]

(* basicSchema, installAddon.mjs:366-377 *)
basicSchema == <<<<"generator client {">>, <<"datasource db {">>, <<>>>>

(* preparePrismaSchema, installAddon.mjs:339-382 *)
preparePrismaSchema(p) ==
  IF existsFile(p.files, "prisma/schema/schema.prisma") THEN p
  ELSE IF existsFile(p.files, "prisma/schema.prisma")
    THEN wrote(p, "prisma/schema/schema.prisma", p.files["prisma/schema.prisma"])
  ELSE wrote(p, "prisma/schema/schema.prisma", basicSchema)

(* A second command, run when the first one succeeded *)
thenCommand(p, succeeded, command, fail) ==
  IF succeeded THEN runCommand(p, command, fail, p) ELSE p

(* installAddon.mjs:391-399 on the prepared project; the migration is      *)
(* `pnpm migrate:new` with the name "merge addon schema"                   *)
mergeAndMigrate(p, fail) ==
  thenCommand(runCommand(p, "npx rwsdk-tools merge", fail, installMergePrismaTool(p)),
              ~commandFails("npx rwsdk-tools merge", fail, installMergePrismaTool(p)),
              "pnpm migrate:new merge addon schema", fail)

(* mergePrismaSchema, installAddon.mjs:387-400 *)
mergePrismaSchema(p, fail) == mergeAndMigrate(preparePrismaSchema(p), fail)

(* generateRoutes, installAddon.mjs:405-415: `pnpm routes` runs the script *)
(* the model of generateRoutes.ts describes                                *)
generateRoutes(p, fail) ==
  thenCommand(runCommand(p, "npx rwsdk-tools routes", fail, installGenerateRoutesTool(p)),
              ~commandFails("npx rwsdk-tools routes", fail, installGenerateRoutesTool(p)),
              "pnpm routes", fail)

(* installAddon.mjs:430-446: the loop over the components *)
RECURSIVE componentLoop(_, _, _)
componentLoop(p, components, fail) ==
  IF components = <<>> THEN p
  ELSE IF existsFile(p.files, "src/app/components/ui/" \o Head(components) \o ".tsx")
    THEN componentLoop(p, Tail(components), fail)
  ELSE componentLoop(
         IF ("npx shadcn-ui add " \o Head(components)) \in fail
           THEN logged(runCommand(p, "npx shadcn-ui add " \o Head(components), fail, p),
                       <<"Failed to install component: " \o Head(components)>>)
           ELSE runCommand(p, "npx shadcn-ui add " \o Head(components), fail,
                           wrote(p, "src/app/components/ui/" \o Head(components) \o ".tsx",
                                 ToolFile(Head(components) \o ".tsx"))),
         Tail(components), fail)

(* installAddon.mjs:425-446: the base, then the components *)
shadcnBaseThen(p, r, components, fail) ==
  IF commandFails("npx rwsdk-tools shadcn", fail, r)
    THEN logged(runCommand(p, "npx rwsdk-tools shadcn", fail, r),
                <<"Failed to install shadcn/ui base">>)
    ELSE componentLoop(runCommand(p, "npx rwsdk-tools shadcn", fail, r), components, fail)

(* installShadcnComponents, installAddon.mjs:420-455 *)
installShadcnComponents(p, components, fail) ==
  IF components = <<>> THEN p
  ELSE shadcnBaseThen(p, setupShadcn(p, fail), components, fail)

(* installAddon.mjs:484-487: Tailwind *)
tailwindStep(p, config, fail) ==
  IF truthy(config, "tailwind")
    THEN runCommand(p, "npx rwsdk-tools tailwind", fail, installTailwindSetup(p, fail))
    ELSE p

(* installAddon.mjs:490-508: shadcn/ui and its components *)
shadcnStep(p, config, fail) ==
  IF ~truthy(config, "shadcn") THEN p
  ELSE IF config["shadcn"].type = "boolean"
    THEN runCommand(p, "npx rwsdk-tools shadcn", fail, setupShadcn(p, fail))
  ELSE IF ~config["shadcn"].required THEN p
  ELSE IF config["shadcn"].components # <<>>
    THEN installShadcnComponents(p, config["shadcn"].components, fail)
  ELSE runCommand(p, "npx rwsdk-tools shadcn", fail, setupShadcn(p, fail))

(* installAddon.mjs:511-513 *)
packagesStep(p, config, fail) ==
  IF truthy(config, "packages") THEN installPackages(p, config["packages"].items, fail) ELSE p

(* installAddon.mjs:516-518 *)
envStep(p, config) ==
  IF truthy(config, "env") /\ config["env"].items # <<>>
    THEN [p EXCEPT !.files = addEnvVariables(@, config["env"].items)]
    ELSE p

(* installAddon.mjs:521-523 *)
stylesStep(p, config) ==
  IF truthy(config, "styles") THEN injectStyles(p, config["styles"]) ELSE p

(* installAddon.mjs:482 and 526-528 *)
routesStep(p, config) ==
  IF truthy(config, "routes") THEN addRoutes(p, config["name"].text, config["routes"]) ELSE p

-----------------------------------------------------------------------------
(* generateAddonConfig.mjs run on an add-on, installAddon.mjs run with the *)
(* addon.jsonc it wrote or with one written by hand                        *)

(* installAddon has done a step and goes on *)
AddonStep(p, next) ==
  /\ files' = p.files
  /\ packageJson' = p.pkg
  /\ execLog' = p.exec
  /\ toolLog' = p.log
  /\ tpc' = next
  /\ UNCHANGED <<tool, argv, failing, toolExit, cliVars, addonVars, plopVars>>
  /\ UNCHANGED <<routeVars, seedVars>>

(* generateAddonConfig and writeAddonConfig; installAddon.mjs:463-482 then *)
(* reads and parses the file                                               *)
GenerateAddonConfig ==
  /\ tool = "generateAddonConfig.mjs" /\ tpc = "generate"
  /\ addonConfig' = generateAddonConfig(addon)
  /\ addonDir' = "ok"
  /\ tool' = "installAddon.mjs"
  /\ tpc' = "tailwind"
  /\ UNCHANGED <<argv, files, packageJson, failing, execLog, toolLog, toolExit, cliVars,
                 addon, plopVars>>
  /\ UNCHANGED <<routeVars, seedVars>>

installs(step) == tool = "installAddon.mjs" /\ tpc = step

InstallTailwind ==
  installs("tailwind") /\ AddonStep(tailwindStep(project, addonConfig, failing), "shadcnui")

InstallShadcn ==
  installs("shadcnui") /\ AddonStep(shadcnStep(project, addonConfig, failing), "packages")

InstallPackages ==
  installs("packages") /\ AddonStep(packagesStep(project, addonConfig, failing), "env")

AddEnvVariables ==
  installs("env") /\ AddonStep(envStep(project, addonConfig), "styles")

InjectStyles ==
  installs("styles") /\ AddonStep(stylesStep(project, addonConfig), "routes")

AddRoutes ==
  installs("routes") /\ AddonStep(routesStep(project, addonConfig), "prisma")

MergePrismaSchema ==
  installs("prisma") /\ AddonStep(mergePrismaSchema(project, failing), "generateRoutes")

GenerateRoutes ==
  installs("generateRoutes") /\ AddonStep(generateRoutes(project, failing), "done")

(* What generateAddonConfig can find in an add-on directory *)
EnvNames == {"API_KEY", "RESEND_API_KEY", "DATABASE_URL"}

EnvArrays ==
  {e \in UNION {[1..n -> EnvNames] : n \in 0..MaxEnv} :
     \A i, j \in 1..Len(e) : i # j => e[i] # e[j]}

(* a style sheet that uses @apply is a style sheet of the add-on *)
Addons ==
  {found \in
     {[name |-> "suggest", imports |-> i, env |-> e, components |-> c, applies |-> a,
       css |-> s, routes |-> r[1], prefix |-> r[2]] :
        i \in {<<>>, <<"react", "lucide-react", "resend">>},
        e \in EnvArrays,
        c \in {<<>>, <<"button">>},
        a \in BOOLEAN, s \in BOOLEAN,
        r \in {<<FALSE, "">>, <<TRUE, "">>, <<TRUE, "suggest">>}} :
     found.applies => found.css}

(* addon.jsonc files written by hand, with the keys INSTALL-README.md names *)
BlogConfig ==
  ("name" :> JsonString("blog")) @@ ("tailwind" :> JsonBoolean(TRUE))
  @@ ("shadcn" :> JsonBoolean(TRUE)) @@ ("packages" :> JsonArray(<<"marked">>))
  @@ ("env" :> JsonArray(<<"API_KEY">>))
  @@ ("routes" :> JsonRoutes("routes.tsx", "/blog"))

PlainConfig ==
  ("name" :> JsonString("blog")) @@ ("tailwind" :> JsonBoolean(FALSE))
  @@ ("shadcn" :> [type |-> "object", required |-> FALSE, components |-> <<"button">>])
  @@ ("routes" :> JsonRoutes("", ""))
  @@ ("styles" :> [type |-> "object", source |-> "", injectInto |-> "src/app/styles.css",
                   injectDirective |-> ""])

HandWritten == {BlogConfig, PlainConfig}

(* src/worker.tsx with the render array installAddon looks for *)
Worker ==
  << <<"import { defineApp } from 'rwsdk/worker'", ";">>,
     <<"import { render, route } from 'rwsdk/router'", ";">>,
     <<>>,
     <<"export default defineApp({">>,
     <<"render: [", "route('/', Home),", "]", ",">>,
     <<"})", ";">> >>

(* the same after the suggest add-on was installed with the prefix /suggest *)
WorkerWithAddon ==
  withRoute(withImport(Worker, "suggest", "routes.ts"), "/suggest", importNameOf("suggest"))

DefinedEnv == << <<"API_KEY", "=", "abc">>, <<"RESEND_API_KEY", "=">> >>

AddonProjects ==
  {FreshProject,
   writeFile(FreshProject, "src/worker.tsx", Worker),
   writeFile(StyledProject, "src/worker.tsx", Worker),
   writeFile(writeFile(TailwindProject, "src/worker.tsx", WorkerWithAddon), ".env", DefinedEnv)}

AddonFailing ==
  {{}, {"npx rwsdk-tools merge"}, {"npx rwsdk-tools routes"}, {"npx shadcn-ui add button"}}

AddonInit ==
  /\ RoutesIdle
  /\ SeedIdle
  /\ \/ /\ tool = "generateAddonConfig.mjs"
        /\ tpc = "generate"
        /\ addon \in Addons
        /\ addonConfig = <<>>
        /\ addonDir = "no addon.jsonc"
     \/ /\ tool = "installAddon.mjs"
        /\ tpc = "tailwind"
        /\ addon = NoAddon
        /\ addonConfig \in HandWritten
        /\ addonDir = "ok"
  /\ argv = <<>>
  /\ files \in AddonProjects
  /\ packageJson \in {StarterPackageJson, TailwindPackageJson}
  /\ failing \in AddonFailing
  /\ execLog = <<>>
  /\ toolLog = <<>>
  /\ toolExit = NoExit
  /\ queue = <<>>
  /\ ran = <<>>
  /\ answers = <<>>
  /\ sourceContent = <<>>
  /\ dirs = {}

AddonNext ==
  \/ GenerateAddonConfig
  \/ InstallTailwind
  \/ InstallShadcn
  \/ InstallPackages
  \/ AddEnvVariables
  \/ InjectStyles
  \/ AddRoutes
  \/ MergePrismaSchema
  \/ GenerateRoutes

AddonSpec == AddonInit /\ [][AddonNext]_vars

-----------------------------------------------------------------------------
(* plopfile.mjs: restructureComponent (lines 8-31) and the restructure     *)
(* generator (lines 207-241), one step per call of fs.  A call of fs       *)
(* either does its work or throws.                                         *)

ComponentsDir == "src/app/components"

sourcePathOf(componentName) == ComponentsDir \o "/" \o componentName \o ".tsx"
dirPathOf(componentName) == ComponentsDir \o "/" \o componentName
newPathOf(componentName) == dirPathOf(componentName) \o "/" \o componentName \o ".tsx"

(* fs.unlinkSync(p) *)
unlinkSync(fs, p) == [q \in DOMAIN fs \ {p} |-> fs[q]]

writeCopyTruncated(fs, newPath, data) == writeFile(fs, newPath, <<>>)

(* plopfile.mjs:26-27 and 231-232: fs.writeFileSync(newPath, sourceContent) *)
writeCopy(fs, newPath, data) == writeFile(fs, newPath, data)

Restructures == {"restructureComponent", "plop restructure"}

(* A step of the restructuring: the files, the directories, what was read  *)
(* and the next position                                                   *)
RestructureStep(fs, directories, read, next) ==
  /\ files' = fs
  /\ dirs' = directories
  /\ sourceContent' = read
  /\ tpc' = next
  /\ UNCHANGED <<tool, argv, packageJson, failing, execLog, toolLog, toolExit, cliVars,
                 addonVars, answers>>
  /\ UNCHANGED <<routeVars, seedVars>>

(* lines 9-13 and 217-224: restructureComponent skips a component whose    *)
(* file does not exist, the generator throws                               *)
CheckSource ==
  /\ tool \in Restructures /\ tpc = "check"
  /\ RestructureStep(files, dirs, sourceContent,
       IF existsFile(files, sourcePathOf(answers["name"])) THEN "read"
       ELSE IF tool = "restructureComponent" THEN "skipped" ELSE "failed")

(* lines 16 and 227: fs.readFileSync(sourcePath, "utf-8") *)
ReadSource ==
  /\ tool \in Restructures /\ tpc = "read"
  /\ \/ RestructureStep(files, dirs, files[sourcePathOf(answers["name"])], "mkdir")
     \/ RestructureStep(files, dirs, sourceContent, "failed")

(* lines 19-22 and 230-233: the directory is made unless it exists; making *)
(* it fails when a file stands at its path                                 *)
MakeDirectory ==
  /\ tool \in Restructures /\ tpc = "mkdir"
  /\ IF dirPathOf(answers["name"]) \in dirs
       THEN RestructureStep(files, dirs, sourceContent, "write")
     ELSE IF existsFile(files, dirPathOf(answers["name"]))
       THEN RestructureStep(files, dirs, sourceContent, "failed")
     ELSE \/ RestructureStep(files, dirs \cup {dirPathOf(answers["name"])},
                             sourceContent, "write")
          \/ RestructureStep(files, dirs, sourceContent, "failed")

(* lines 25-26 and 236-237: the copy is written; a write that throws has   *)
(* written nothing or has left the new file cut short                      *)
WriteCopy ==
  /\ tool \in Restructures /\ tpc = "write"
  /\ \/ RestructureStep(writeCopy(files, newPathOf(answers["name"]), sourceContent),
                        dirs, sourceContent, "unlink")
     \/ RestructureStep(files, dirs, sourceContent, "failed")
     \/ RestructureStep(writeFile(files, newPathOf(answers["name"]), <<>>),
                        dirs, sourceContent, "failed")

(* lines 29-30 and 240: the original is deleted *)
UnlinkSource ==
  /\ tool \in Restructures /\ tpc = "unlink"
  /\ \/ RestructureStep(unlinkSync(files, sourcePathOf(answers["name"])),
                        dirs, sourceContent, "done")
     \/ RestructureStep(files, dirs, sourceContent, "failed")

ComponentTexts ==
  { << <<"export function Button() {">>, <<"return <button />", ";">>, <<"}">> >>,
    << <<"export const Card = () => null", ";">> >>,
    <<>> }

(* The components directory: the component as a file, as a folder, as      *)
(* both, or neither, next to another component                             *)
ComponentDirs ==
  { [files |-> f, dirs |-> d] :
      f \in UNION { [paths -> ComponentTexts] :
                      paths \in SUBSET {sourcePathOf("Button"), newPathOf("Button"),
                                        dirPathOf("Button"), sourcePathOf("Card")} },
      d \in SUBSET {dirPathOf("Button")} }

(* a file stands inside a directory that exists, and no file stands where  *)
(* a directory does                                                        *)
ValidComponentDirs ==
  { c \in ComponentDirs :
      /\ newPathOf("Button") \in DOMAIN c.files => dirPathOf("Button") \in c.dirs
      /\ dirPathOf("Button") \in DOMAIN c.files => dirPathOf("Button") \notin c.dirs }

RestructureInit ==
  /\ RoutesIdle
  /\ SeedIdle
  /\ tool \in Restructures
  /\ tpc = "check"
  /\ argv = <<>>
  /\ \E c \in ValidComponentDirs : files = c.files /\ dirs = c.dirs
  /\ packageJson = WidePackageJson
  /\ failing = {}
  /\ execLog = <<>>
  /\ toolLog = <<>>
  /\ toolExit = NoExit
  /\ queue = <<>>
  /\ ran = <<>>
  /\ addon = NoAddon
  /\ addonDir = "absent"
  /\ addonConfig = <<>>
  /\ answers = ("name" :> "Button")
  /\ sourceContent = <<>>

RestructureNext ==
  \/ CheckSource
  \/ ReadSource
  \/ MakeDirectory
  \/ WriteCopy
  \/ UnlinkSource

RestructureSpec == RestructureInit /\ [][RestructureNext]_vars

-----------------------------------------------------------------------------
(* installAddon.mjs run from the command line: lines 581-708 *)

FlagNames == ("--repo" :> "repo") @@ ("--source" :> "source") @@ ("--dest" :> "dest")
             @@ ("--help" :> "help")

(* installAddon.mjs:595-610: a flag is true until a value follows it; the  *)
(* value true is written "true", as a template string prints it            *)
RECURSIVE flagLoop(_, _, _, _, _)
flagLoop(arguments, i, currentFlag, flags, positionalArgs) ==
  IF i > Len(arguments) THEN [flags |-> flags, positionalArgs |-> positionalArgs]
  ELSE IF arguments[i] \in DOMAIN FlagNames
    THEN flagLoop(arguments, i + 1, FlagNames[arguments[i]],
                  setKey(flags, FlagNames[arguments[i]], "true"), positionalArgs)
  ELSE IF currentFlag # ""
    THEN flagLoop(arguments, i + 1, "", setKey(flags, currentFlag, arguments[i]),
                  positionalArgs)
  ELSE flagLoop(arguments, i + 1, "", flags, Append(positionalArgs, arguments[i]))

(* installAddon.mjs:588-592: a leading 'install' is skipped *)
parseFlags(arguments) ==
  flagLoop(arguments, IF Len(arguments) > 0 /\ arguments[1] = "install" THEN 2 ELSE 1,
           "", <<>>, <<>>)

(* installFromGitHub, installAddon.mjs:142-149 *)
degitCommand(repoUrl, addonName) ==
  "npx degit " \o repoUrl \o "/" \o addonName \o " " \o addonName

(* process.exit(code) after the messages logged on the way *)
ExitInstall(code, commands, messages) ==
  /\ toolExit' = code
  /\ tpc' = "exited"
  /\ execLog' = execLog \o commands
  /\ toolLog' = toolLog \o messages
  /\ UNCHANGED <<tool, argv, files, packageJson, failing, cliVars, addonVars, plopVars>>
  /\ UNCHANGED <<routeVars, seedVars>>

(* executeInstall calls installAddon *)
CallInstallAddon(commands) ==
  /\ tpc' = "installAddon"
  /\ execLog' = execLog \o commands
  /\ UNCHANGED <<tool, argv, files, packageJson, failing, toolLog, toolExit, cliVars,
                 addonVars, plopVars>>
  /\ UNCHANGED <<routeVars, seedVars>>

(* installAddon.mjs:634-644 and executeInstall up to its call of           *)
(* installAddon, lines 651-697.  copyDirectory leaves in the destination   *)
(* what the source holds, so addonDir stands for both.                     *)
ExecuteInstall ==
  /\ tool = "installAddon.mjs" /\ tpc = "execute"
  /\ IF "help" \in DOMAIN parseFlags(argv).flags
       THEN ExitInstall(1, <<>>, <<>>)
     ELSE IF parseFlags(argv).positionalArgs = <<>>
       THEN ExitInstall(1, <<>>, <<"Please provide an add-on name">>)
     ELSE IF "repo" \in DOMAIN parseFlags(argv).flags
       THEN IF degitCommand(parseFlags(argv).flags["repo"],
                            parseFlags(argv).positionalArgs[1]) \in failing
              THEN ExitInstall(1, <<degitCommand(parseFlags(argv).flags["repo"],
                                                 parseFlags(argv).positionalArgs[1])>>,
                               <<"Failed to install add-on from GitHub">>)
              ELSE CallInstallAddon(<<degitCommand(parseFlags(argv).flags["repo"],
                                                   parseFlags(argv).positionalArgs[1])>>)
     ELSE IF "source" \in DOMAIN parseFlags(argv).flags
       THEN IF addonDir = "absent"
              THEN ExitInstall(1, <<>>, <<"Source add-on directory not found: "
                                          \o parseFlags(argv).flags["source"]>>)
              ELSE CallInstallAddon(<<>>)
     ELSE ExitInstall(1, <<>>, <<"Please specify either --repo or --source flag">>)

(* installAddon.mjs:460-482 and 543-548: addon.jsonc is looked for, read   *)
(* and parsed; installAddon returns false when it is missing and when      *)
(* JSON.parse throws                                                       *)
ReadAddonConfig ==
  /\ tool = "installAddon.mjs" /\ tpc = "installAddon"
  /\ IF addonDir = "ok"
       THEN /\ tpc' = "tailwind"
            /\ UNCHANGED toolLog
       ELSE /\ tpc' = "returned false"
            /\ toolLog' = Append(toolLog,
                                 IF addonDir = "unparsable addon.jsonc"
                                   THEN "Error installing add-on"
                                   ELSE "addon.jsonc not found")
  /\ UNCHANGED <<tool, argv, files, packageJson, failing, execLog, toolExit, cliVars,
                 addonVars, plopVars>>
  /\ UNCHANGED <<routeVars, seedVars>>

(* installAddon.mjs:699: installAddon has returned, with either result *)
ExitAfterInstall ==
  /\ tool = "installAddon.mjs" /\ tpc \in {"done", "returned false"}
  /\ ExitInstall(0, <<>>, <<>>)

ExecuteArgs ==
  { <<"install", "suggest", "--source", "addons/suggest">>,
    <<"suggest", "--source", "addons/suggest">>,
    <<"--source", "addons/suggest", "suggest">>,
    <<"install", "suggest", "--repo", "https://github.com/u/addons">>,
    <<"install", "suggest">>,
    <<"install", "--source", "addons/suggest">>,
    <<"suggest", "--help">>,
    <<>> }

ExecuteInit ==
  /\ RoutesIdle
  /\ SeedIdle
  /\ tool = "installAddon.mjs"
  /\ tpc = "execute"
  /\ argv \in ExecuteArgs
  /\ addon = NoAddon
  /\ addonConfig \in HandWritten
  /\ addonDir \in {"absent", "no addon.jsonc", "unparsable addon.jsonc", "ok"}
  /\ files \in AddonProjects
  /\ packageJson = StarterPackageJson
  /\ failing \in {{}, {"npx rwsdk-tools merge"},
                  {degitCommand("https://github.com/u/addons", "suggest")}}
  /\ execLog = <<>>
  /\ toolLog = <<>>
  /\ toolExit = NoExit
  /\ queue = <<>>
  /\ ran = <<>>
  /\ answers = <<>>
  /\ sourceContent = <<>>
  /\ dirs = {}

ExecuteNext ==
  \/ ExecuteInstall
  \/ ReadAddonConfig
  \/ InstallTailwind
  \/ InstallShadcn
  \/ InstallPackages
  \/ AddEnvVariables
  \/ InjectStyles
  \/ AddRoutes
  \/ MergePrismaSchema
  \/ GenerateRoutes
  \/ ExitAfterInstall

ExecuteSpec == ExecuteInit /\ [][ExecuteNext]_vars

-----------------------------------------------------------------------------
(* tools/componentGenerator/plopfile.mjs: the component generator *)

(* args.includes(flag) *)
includesFlag(arguments, flag) == \E k \in 1..Len(arguments) : arguments[k] = flag

(* plopfile.mjs:46-58: --file and --folder *)
argStructure(arguments) ==
  IF includesFlag(arguments, "--file")
    THEN [k \in {"structure"}
                \cup (IF includesFlag(arguments, "--stories") THEN {} ELSE {"withStories"})
                \cup (IF includesFlag(arguments, "--tests") THEN {} ELSE {"withTests"})
            |-> IF k = "structure" THEN "file" ELSE FALSE]
  ELSE IF includesFlag(arguments, "--folder") THEN ("structure" :> "folder")
  ELSE <<>>

(* plopfile.mjs:60-65: --stories and --no-stories *)
argStories(arguments, options) ==
  IF includesFlag(arguments, "--stories") THEN setKey(options, "withStories", TRUE)
  ELSE IF includesFlag(arguments, "--no-stories") THEN setKey(options, "withStories", FALSE)
  ELSE options

(* plopfile.mjs:67-72: --tests and --no-tests *)
argTests(arguments, options) ==
  IF includesFlag(arguments, "--tests") THEN setKey(options, "withTests", TRUE)
  ELSE IF includesFlag(arguments, "--no-tests") THEN setKey(options, "withTests", FALSE)
  ELSE options

(* parseCommandLineArgs, plopfile.mjs:41-76 *)
parseCommandLineArgs(arguments) ==
  argTests(arguments, argStories(arguments, argStructure(arguments)))

(* cmdArgs, plopfile.mjs:79 *)
cmdArgs == parseCommandLineArgs(argv)

(* The prompts of the generator whose `when` is true, plopfile.mjs:88-133; *)
(* the name has no `when`                                                  *)
whenTrue == {"name", "structure", "withStories", "withTests"} \ DOMAIN cmdArgs

(* Object.assign(cmdArgs, data): an answer wins over a flag *)
assignAnswersFirst(data, options) ==
  [k \in DOMAIN data \cup DOMAIN options |-> IF k \in DOMAIN data THEN data[k] ELSE options[k]]

(* Object.assign(data, cmdArgs), plopfile.mjs:139 *)
assign(data, options) ==
  [k \in DOMAIN data \cup DOMAIN options |-> IF k \in DOMAIN options THEN options[k] ELSE data[k]]

(* data[key] is value; a key data does not hold is undefined *)
holds(data, key, value) == key \in DOMAIN data /\ data[key] = value

(* plopfile.mjs:143-200: the paths of the add actions, in order *)
folderActions(data) ==
  << "src/app/components/" \o data["name"] \o "/" \o data["name"] \o ".tsx",
     "src/app/components/" \o data["name"] \o "/index.ts" >>
  \o (IF holds(data, "withStories", TRUE)
        THEN <<"src/app/components/" \o data["name"] \o "/" \o data["name"] \o ".stories.tsx">>
        ELSE <<>>)
  \o (IF holds(data, "withTests", TRUE)
        THEN <<"src/app/components/" \o data["name"] \o "/" \o data["name"] \o ".test.tsx">>
        ELSE <<>>)

fileActions(data) ==
  << "src/app/components/" \o data["name"] \o ".tsx" >>
  \o (IF holds(data, "withStories", TRUE)
        THEN <<"src/app/components/" \o data["name"] \o ".stories.tsx">>
        ELSE <<>>)
  \o (IF holds(data, "withTests", TRUE)
        THEN <<"src/app/components/" \o data["name"] \o ".test.tsx">>
        ELSE <<>>)

(* the function `actions` of the generator, plopfile.mjs:137-203 *)
componentActions(data) ==
  IF holds(data, "structure", "folder") THEN folderActions(data) ELSE fileActions(data)

(* What plop does with the add actions: each creates its file from the     *)
(* template; an add whose file exists fails and the rest is not run        *)
RECURSIVE runActions(_, _)
runActions(fs, paths) ==
  IF paths = <<>> \/ existsFile(fs, Head(paths)) THEN fs
  ELSE runActions(writeFile(fs, Head(paths), ToolFile("plop-templates/component")),
                  Tail(paths))

(* The prompts, plopfile.mjs:88-135.  A prompt whose `when` is true is     *)
(* asked.  A prompt can also be answered on the command line (plop's       *)
(* bypass), whatever its `when`; and with skipPrompts, set when a flag was *)
(* given, a plop that honours it asks nothing but the name.                *)
Prompts ==
  /\ tool = "plopfile.mjs" /\ tpc = "prompts"
  /\ \E answered \in SUBSET {"structure", "withStories", "withTests"} :
       /\ whenTrue \subseteq answered \cup {"name"} \/ (DOMAIN cmdArgs # {} /\ answered = {})
       /\ answers' = [k \in answered \cup {"name"} |-> answers[k]]
  /\ tpc' = "actions"
  /\ UNCHANGED <<sourceContent, dirs>>
  /\ UNCHANGED <<tool, argv, files, packageJson, failing, execLog, toolLog, toolExit, cliVars,
                 addonVars>>
  /\ UNCHANGED <<routeVars, seedVars>>

(* The actions of the generator are computed and run *)
Actions ==
  /\ tool = "plopfile.mjs" /\ tpc = "actions"
  /\ files' = runActions(files, componentActions(assign(answers, cmdArgs)))
  /\ tpc' = "done"
  /\ UNCHANGED <<tool, argv, packageJson, failing, execLog, toolLog, toolExit, cliVars,
                 addonVars, plopVars>>
  /\ UNCHANGED <<routeVars, seedVars>>

(* The flags of the README *)
Flags == {"--file", "--folder", "--stories", "--no-stories", "--tests", "--no-tests"}

FlagLists ==
  {f \in UNION {[1..n -> Flags] : n \in 0..MaxFlags} :
     \A i, j \in 1..Len(f) : i # j => f[i] # f[j]}

(* What a user answers, or gives as a bypass, for each prompt *)
PlopAnswers ==
  {("name" :> "MyComponent") @@ ("structure" :> s) @@ ("withStories" :> st)
     @@ ("withTests" :> t) :
     s \in {"folder", "file"}, st \in BOOLEAN, t \in BOOLEAN}

PlopProjects ==
  {EmptyProject, FreshProject,
   writeFile(FreshProject, "src/app/components/MyComponent.stories.tsx",
             ToolFile("plop-templates/component"))}

PlopInit ==
  /\ RoutesIdle
  /\ SeedIdle
  /\ tool = "plopfile.mjs"
  /\ tpc = "prompts"
  /\ argv \in {<<"component", "MyComponent">> \o f : f \in FlagLists}
  /\ files \in PlopProjects
  /\ packageJson = WidePackageJson
  /\ failing = {}
  /\ execLog = <<>>
  /\ toolLog = <<>>
  /\ toolExit = NoExit
  /\ queue = <<>>
  /\ ran = <<>>
  /\ addon = NoAddon
  /\ addonDir = "absent"
  /\ addonConfig = <<>>
  /\ answers \in PlopAnswers
  /\ sourceContent = <<>>
  /\ dirs = {}

PlopNext == Prompts \/ Actions

PlopSpec == PlopInit /\ [][PlopNext]_vars

-----------------------------------------------------------------------------
(* Reference reading of a routes source: the bracket structure *)

Range(seq) == {seq[i] : i \in 1..Len(seq)}

NoDuplicates(seq) == \A i, j \in 1..Len(seq) : seq[i] = seq[j] => i = j

FirstIndex(seq, x) == CHOOSE i \in 1..Len(seq) : seq[i] = x /\ \A j \in 1..(i - 1) : seq[j] # x

(* out is arr without its repeated entries, first occurrences in order *)
IsFirstOccurrences(out, arr) ==
  /\ NoDuplicates(out)
  /\ Range(out) = Range(arr)
  /\ \A i, j \in 1..Len(out) : i < j => FirstIndex(arr, out[i]) < FirstIndex(arr, out[j])

(* The open brackets around position i, outermost first: the prefix string *)
(* of a prefix("<p>", [ block, the empty string for any other '['.         *)
RECURSIVE openFrames(_, _, _, _)
openFrames(text, j, i, stack) ==
  IF j >= i THEN stack
  ELSE openFrames(text, j + 1, i,
         CASE text[j].k = "prefix[" -> Append(stack, <<"prefix", text[j].p>>)
           [] text[j].k = "["       -> Append(stack, <<"array", "">>)
           [] text[j].k = "]"       -> SubSeq(stack, 1, Len(stack) - 1)
           [] OTHER                 -> stack)

RECURSIVE joinFrames(_, _)
joinFrames(stack, k) ==
  IF k > Len(stack) THEN "" ELSE stack[k][2] \o joinFrames(stack, k + 1)

EnclosingPrefix(text, i) == joinFrames(openFrames(text, 1, i, <<>>), 1)

InsidePrefixBlock(text, i) ==
  \E k \in 1..Len(openFrames(text, 1, i, <<>>)) : openFrames(text, 1, i, <<>>)[k][1] = "prefix"

RECURSIVE pathsInOrder(_, _, _)
pathsInOrder(text, i, prefix) ==
  IF i > Len(text) THEN <<>>
  ELSE IF text[i].k = "route"
    THEN <<prefix \o text[i].p>> \o pathsInOrder(text, i + 1, prefix)
    ELSE pathsInOrder(text, i + 1, prefix)

OnlyPlainRoutes(text) == \A i \in 1..Len(text) : text[i].k \in {"route", "[", "]"}

Extracted == pc \in {"write", "done"}

-----------------------------------------------------------------------------
(* C1: a source with only plain route("<p>" calls gives its route paths in *)
(* source order (each path once), each prepended with the prefix the call  *)
(* was made with; route("/a"), route("/b") gives exactly ["/a", "/b"].     *)
C1_PlainRoutesInSourceOrder ==
  Extracted /\ OnlyPlainRoutes(content) =>
    /\ IsFirstOccurrences(routes, pathsInOrder(content, 1, ""))
    /\ \A prefix \in {"", "/p"} :
         IsFirstOccurrences(extractRoutesFromContent(content, prefix, fsys).routes,
                            pathsInOrder(content, 1, prefix))
    /\ content = PlainExample => routes = <<"/a", "/b">>

W1_PlainExampleExtracted ==
  pc = "done" /\ content = PlainExample /\ linksFile.links = <<"/a", "/b">>

(* C2: a route call inside prefix blocks yields the concatenation of all   *)
(* enclosing prefix strings, outermost first, followed by its own path.    *)
X2_NestedRouteHasFullPath ==
  Extracted =>
    \A i \in 1..Len(content) :
      content[i].k = "route" /\ InsidePrefixBlock(content, i) =>
        (EnclosingPrefix(content, i) \o content[i].p) \in Range(routes)

(* C3: a scope that contains an index( call yields the accumulated prefix  *)
(* of that scope followed by "/".                                          *)
C3_IndexYieldsScopePrefixSlash ==
  Extracted =>
    /\ \A i \in 1..Len(content) :
         content[i].k = "index" => (EnclosingPrefix(content, i) \o "/") \in Range(routes)
    /\ content = AdminIndexExample => "/admin/" \in Range(routes)
    /\ content = NestedIndexExample => "/a/b/" \in Range(routes)

W3_IndexInsidePrefix ==
  pc = "done" /\ content = AdminIndexExample /\ "/admin/" \in Range(linksFile.links)

(* C4: the returned list never holds a path twice and keeps the collected  *)
(* routes in the order of their first occurrence.                          *)
C4_NoDuplicatesFirstSeenOrder ==
  Extracted => IsFirstOccurrences(routes, collected)

W4_DuplicateCollapsed ==
  pc = "done" /\ Len(collected) > Len(routes) /\ Len(routes) >= 2

(* C5: a reference to an import that cannot be resolved or read logs a     *)
(* warning, contributes no route and does not abort: main() fails only when *)
(* the worker itself is unreadable, and the output is the one an empty     *)
(* imported file would give.                                               *)
BoundReferences(text) ==
  {i \in 1..Len(text) : text[i].k \in {"spread", "prefixVar"}
                          /\ importsGet(text, text[i].n) # NoImport}

UnreadableReferences(text, fs) ==
  {i \in BoundReferences(text) :
     ~CanRead(fs, resolveImportPath(importsGet(text, text[i].n), fs))}

WithEmptyRouteFile(fs) ==
  LET target == resolveImportPath(UserRoutes, fs)
  IN  IF CanRead(fs, target) THEN fs ELSE (target :> File(<<>>)) @@ fs

C5_UnreadableImportIsSkipped ==
  /\ pc = "failed" => ~CanRead(fsys, WorkerPath)
  /\ Extracted /\ UnreadableReferences(content, fsys) # {} =>
       /\ Len(warnings) = Cardinality(UnreadableReferences(content, fsys))
       /\ \A k \in 1..Len(warnings) : warnings[k] = UserRoutes
       /\ routes = extractRoutesFromContent(content, "", WithEmptyRouteFile(fsys)).routes

W5_WarnedAndWritten ==
  /\ pc = "done" /\ linksFile.written
  /\ Len(warnings) = 2
  /\ Len(routes) >= 2

(* C6: the README's example worker.tsx gives exactly "/",                  *)
(* "/admin/dashboard", "/admin/contacts/:id", "/login", "/logout".         *)
X6_ReadmeExampleOutput ==
  pc = "done" /\ content = ReadmeWorker /\ fsys["src/auth.ts"] = File(ReadmeUserRoutes) =>
    linksFile.links = <<"/", "/admin/dashboard", "/admin/contacts/:id", "/login", "/logout">>

-----------------------------------------------------------------------------
(* Reference reading of a seed file *)

SeedFinished == spc \in {"done", "exited"}

Processed == spc \in {"processed", "done"}

RECURSIVE isSubsequenceFrom(_, _, _, _)
isSubsequenceFrom(a, i, b, j) ==
  IF i > Len(a) THEN TRUE
  ELSE IF j > Len(b) THEN FALSE
  ELSE IF a[i] = b[j] THEN isSubsequenceFrom(a, i + 1, b, j + 1)
  ELSE isSubsequenceFrom(a, i, b, j + 1)

(* the entries of a occur in b, in the order of a *)
IsSubsequence(a, b) == isSubsequenceFrom(a, 1, b, 1)

(* The SQL statements passed to db.$executeRawUnsafe, in source order *)
RECURSIVE rawStatementsFrom(_, _)
rawStatementsFrom(seed, c) ==
  IF c > Len(seed) THEN <<>>
  ELSE IF seed[c].kind = "raw"
    THEN statementLines(seed[c].lines) \o rawStatementsFrom(seed, c + 1)
    ELSE rawStatementsFrom(seed, c + 1)

(* The entries of stmts at the positions of keep, in order *)
RECURSIVE restrictFrom(_, _, _)
restrictFrom(stmts, i, keep) ==
  IF i > Len(stmts) THEN <<>>
  ELSE IF i \in keep THEN <<stmts[i]>> \o restrictFrom(stmts, i + 1, keep)
  ELSE restrictFrom(stmts, i + 1, keep)

FirstOccurrencePositions(stmts) ==
  {i \in 1..Len(stmts) : \A j \in 1..(i - 1) : normalized(stmts[j]) # normalized(stmts[i])}

(* One INSERT per element of every data array, in source order *)
RECURSIVE expectedInsertsFrom(_, _)
expectedInsertsFrom(seed, c) ==
  IF c > Len(seed) THEN <<>>
  ELSE IF seed[c].kind = "createMany"
    THEN [i \in 1..Len(seed[c].items) |-> itemInsert(seed[c].model, seed[c].items[i])]
           \o expectedInsertsFrom(seed, c + 1)
    ELSE expectedInsertsFrom(seed, c + 1)

(* Only awaited createMany calls, their elements flat object literals of   *)
(* strings and numbers, no two elements giving the same INSERT             *)
OnlyCreateManyOfLiterals(seed) ==
  /\ seed # <<>>
  /\ \A c \in 1..Len(seed) :
       /\ seed[c].kind = "createMany" /\ seed[c].awaited
       /\ \A i \in 1..Len(seed[c].items) : itemIsJson(seed[c].items[i])
  /\ NoDuplicates(expectedInsertsFrom(seed, 1))

-----------------------------------------------------------------------------
(* C7: run without an input file on the command line, seedToSql reads      *)
(* src/scripts/seed.ts and generates SQL from it; it does not fail.        *)
X7_DefaultSeedFileIsUsed ==
  SeedFinished /\ args = <<>> =>
    /\ seedExit = 0
    /\ inputFile = DefaultSeedTs
    /\ written.statements # <<>>

(* C8: every SQL statement passed to db.$executeRawUnsafe appears in the   *)
(* generated SQL, in source order.                                         *)
X8_RawSqlIsPreserved ==
  spc = "done" =>
    IsSubsequence(rawStatementsFrom(seedFileContent, 1), written.statements)

(* C9: after processSeedFile no two statements are equal up to whitespace; *)
(* removeDuplicateSqlStatements keeps exactly the first occurrence of each *)
(* statement, in order, and applying it again changes nothing.             *)
C9_NoDuplicateStatements ==
  Processed =>
    /\ \A i, j \in 1..Len(sqlStatements) :
         normalized(sqlStatements[i]) = normalized(sqlStatements[j]) => i = j
    /\ removeDuplicateSqlStatements(extracted)
         = restrictFrom(extracted, 1, FirstOccurrencePositions(extracted))
    /\ removeDuplicateSqlStatements(removeDuplicateSqlStatements(extracted))
         = removeDuplicateSqlStatements(extracted)
    /\ extracted # <<>> => sqlStatements = removeDuplicateSqlStatements(extracted)

W9_WhitespaceVariantDropped ==
  /\ spc = "done"
  /\ \E i, j \in 1..Len(extracted) :
       /\ i < j
       /\ extracted[i] # extracted[j]
       /\ normalized(extracted[i]) = normalized(extracted[j])
       /\ extracted[i] \in Range(written.statements)
       /\ extracted[j] \notin Range(written.statements)
  /\ Len(written.statements) >= 2

(* C10: a createMany call with n flat object literals gives n INSERT       *)
(* statements for its model, one per element, in array order, with the     *)
(* element's keys as columns and its values as values.                     *)
X10_OneInsertPerElement ==
  spc = "done" /\ OnlyCreateManyOfLiterals(seedFileContent) =>
    written.statements = expectedInsertsFrom(seedFileContent, 1)

-----------------------------------------------------------------------------
(* Reference reading of nested data: relations by their brace structure *)

(* frames holds, innermost last, the relation each open brace belongs to;  *)
(* 0 is the brace of a `create: {` / `connect: {` object                   *)
enclosingRelation(frames) ==
  LET rs == {f \in 1..Len(frames) : frames[f] # 0}
  IN  IF rs = {} THEN 0 ELSE frames[CHOOSE f \in rs : \A g \in rs : g <= f]

RECURSIVE structureLoop(_, _, _)
structureLoop(lines, i, st) ==
  IF i > Len(lines) THEN st
  ELSE
    LET field == lines[i][1]
        value == lines[i][2]
        top == IF st.frames = <<>> THEN 0 ELSE st.frames[Len(st.frames)]
        inside == enclosingRelation(st.frames)
    IN  IF value.t \in {"open", "tight"} /\ field \in {"create", "connect"} /\ top # 0
          THEN structureLoop(lines, i + 1,
                 [st EXCEPT !.rels[top].type = field, !.frames = Append(@, 0)])
        ELSE IF value.t \in {"open", "tight"}
          THEN structureLoop(lines, i + 1,
                 [st EXCEPT
                    !.rels = Append(@, Relation(field, "", <<>>, inside,
                                Cardinality({f \in 1..Len(st.frames) : st.frames[f] # 0}) + 1)),
                    !.frames = Append(@, Len(st.rels) + 1)])
        ELSE IF value.t = "close"
          THEN structureLoop(lines, i + 1,
                 [st EXCEPT !.frames = IF @ = <<>> THEN @ ELSE SubSeq(@, 1, Len(@) - 1)])
        ELSE IF inside = 0
          THEN structureLoop(lines, i + 1, [st EXCEPT !.main = setField(@, field, value)])
        ELSE structureLoop(lines, i + 1,
               [st EXCEPT !.rels[inside].data = setField(@, field, value)])

(* The INSERTs of the nested create relations, deepest first, then the     *)
(* INSERT of the main model with its own fields and its foreign keys       *)
expectedNestedStatements(mainModelName, item) ==
  LET st == structureLoop(item, 1, [main |-> <<>>, rels |-> <<>>, frames |-> <<>>])
  IN  emitRelations(mainModelName, st.rels, st.main)

(* The seed is one awaited create call, without a comma after its data,    *)
(* whose data holds a relation: the call complexCreatePattern accepts      *)
OneNestedCreate(seed) ==
  /\ Len(seed) = 1
  /\ directComplexMatches(seed[1])

(* C11: for a create call with nested relations processComplexCreateData  *)
(* runs to completion; the statements are the INSERTs of the nested create *)
(* relations, deepest first, then the INSERT of the main model carrying    *)
(* <relation>Id for each nested create and <relation><Key> for each field  *)
(* of a nested connect.                                                    *)
X11_NestedRelationsInsertedBeforeMain ==
  (spc \in {"processed", "done", "crashed"} /\ OneNestedCreate(seedFileContent)) =>
    /\ spc # "crashed"
    /\ sqlStatements =
         expectedNestedStatements(seedFileContent[1].model, seedFileContent[1].items[1])

-----------------------------------------------------------------------------
(* Date values of a create call *)

DateColumns(item) == {k \in 1..Len(item) : item[k][2].t \in {"date", "dateArg"}}

FlatData(item) == \A k \in 1..Len(item) : item[k][2].t \notin {"open", "tight", "close"}

(* The INSERT of a create call with CURRENT_TIMESTAMP for each Date value; *)
(* a value that is not a Date may be written as SQL literal or as quoted   *)
(* text                                                                    *)
dateInserts(call) ==
  LET item == call.items[1]
      texts(k) == IF k \in DateColumns(item) THEN {"CURRENT_TIMESTAMP"}
                  ELSE {valueToSql(item[k][2]), valueToSql(Str(item[k][2].v))}
      values == {f \in [1..Len(item) -> UNION {texts(k) : k \in 1..Len(item)}] :
                   \A k \in 1..Len(item) : f[k] \in texts(k)}
  IN  {insertSql(call.model, keysOf(item), f) : f \in values}

OneDatedCreate(seed) ==
  /\ Len(seed) = 1
  /\ seed[1].kind = "create"
  /\ FlatData(seed[1].items[1])
  /\ DateColumns(seed[1].items[1]) # {}

(* C12: every Date value of a create call, new Date() with or without      *)
(* arguments, is written in the generated INSERT as the unquoted keyword   *)
(* CURRENT_TIMESTAMP.                                                      *)
X12_DateIsCurrentTimestamp ==
  Processed /\ OneDatedCreate(seedFileContent) =>
    /\ sqlStatements # <<>>
    /\ \A n \in 1..Len(sqlStatements) : sqlStatements[n] \in dateInserts(seedFileContent[1])

-----------------------------------------------------------------------------
(* The installers main() has called or is about to call *)
dispatched == {ran[k] : k \in 1..Len(ran)} \cup {queue[k] : k \in 1..Len(queue)}

(* The default case of the switch: error message, help text, status 1 *)
unknownCommandPath ==
  /\ argv # <<>>
  /\ toolLog # <<>>
  /\ toolLog[1] = "Unknown command: " \o argv[1]
  /\ toolExit = 1

(* C13: once main() has dispatched, a command of the README usage has had  *)
(* its installer called (help: the help text shown) and did not take the   *)
(* unknown-command path, and with no command the installer of every tool   *)
(* of the usage is called.                                                 *)
X13_DocumentedCommandsDispatched ==
  (tool \in CliTools /\ tpc # "main") =>
    IF argv = <<>>
      THEN Documented \ {"help"} \subseteq dispatched
    ELSE IF argv[1] \in Documented
      THEN ~unknownCommandPath /\ argv[1] \in dispatched
    ELSE TRUE

-----------------------------------------------------------------------------
(* C14: a run of the windsurf setup leaves every file that was in the      *)
(* project in place with the content it had.                               *)
X14_WindsurfKeepsExistingFiles ==
  [][tool = "windsurf" =>
       \A q \in DOMAIN files : q \in DOMAIN files' /\ files'[q] = files[q]]_vars

-----------------------------------------------------------------------------
(* C15: when src/app/styles.css exists before setupShadcn runs, every line *)
(* it held is a line of the file after the run.                            *)
X15_ShadcnKeepsExistingStyles ==
  [][(tpc = "shadcn" /\ existsFile(files, "src/app/styles.css")) =>
       /\ existsFile(files', "src/app/styles.css")
       /\ \A l \in 1..Len(files["src/app/styles.css"]) :
            \E m \in 1..Len(files'["src/app/styles.css"]) :
              files'["src/app/styles.css"][m] = files["src/app/styles.css"][l]]_vars
-----------------------------------------------------------------------------
(* The lines of a text that define envVar: they start with `envVar=` *)
definitions(body, envVar) ==
  {l \in 1..Len(body) : Len(body[l]) >= 2 /\ body[l][1] = envVar /\ body[l][2] = "="}

(* The env array installAddon hands to addEnvVariables *)
envArray == IF truthy(addonConfig, "env") THEN addonConfig["env"].items ELSE <<>>

(* C16: after addEnvVariables every variable of the env array has a line   *)
(* that defines it in .env, a variable the file already defined got no     *)
(* second line, a variable it did not define got one line, and the text    *)
(* the file held before is still its beginning.                            *)
X16_EnvVariablesDefined ==
  [][installs("env") =>
       /\ \A k \in 1..Len(envArray) :
            Cardinality(definitions(readFile(files', ".env"), envArray[k]))
              = IF definitions(readFile(files, ".env"), envArray[k]) # {}
                  THEN Cardinality(definitions(readFile(files, ".env"), envArray[k]))
                  ELSE 1
       /\ Len(readFile(files', ".env")) >= Len(readFile(files, ".env"))
       /\ SubSeq(readFile(files', ".env"), 1, Len(readFile(files, ".env")))
            = readFile(files, ".env")]_vars

(* The commands installAddon has run so far *)
executed == {execLog[k] : k \in 1..Len(execLog)}

(* C17: an installation with the addon.jsonc generateAddonConfig wrote for *)
(* an add-on it marks Tailwind CSS as required for has run the Tailwind    *)
(* setup when it ends.                                                     *)
X17_RequiredTailwindInstalled ==
  (tool = "installAddon.mjs" /\ tpc = "done" /\ addon \in Addons
   /\ truthy(generateAddonConfig(addon), "tailwindcss")) =>
    executed \cap {"npx rwsdk-tools tailwind", "npx graftthis tailwind"} # {}

(* The step of the documented order a command belongs to *)
stepOf(command) ==
  IF command = "npx rwsdk-tools tailwind" THEN 1
  ELSE IF command \in {"npx rwsdk-tools shadcn", "npx shadcn-ui add button",
                       "npx graftthis tailwind", "pnpm install tailwindcss @tailwindcss/vite",
                       ShadcnAdd} THEN 2
  ELSE IF command = "npx rwsdk-tools merge" THEN 4
  ELSE IF command = "pnpm migrate:new merge addon schema" THEN 5
  ELSE IF command = "npx rwsdk-tools routes" THEN 6
  ELSE IF command = "pnpm routes" THEN 7
  ELSE 3

(* The routes of the add-on are in the render array of worker.tsx *)
routesWritten ==
  truthy(addonConfig, "routes") =>
    \E l \in 1..Len(readFile(files, "src/worker.tsx")) :
      \E k \in 1..Len(readFile(files, "src/worker.tsx")[l]) :
        readFile(files, "src/worker.tsx")[l][k]
          \in {spreadPiece(importNameOf(addonConfig["name"].text)),
               prefixPiece(addonConfig["routes"].prefix,
                           importNameOf(addonConfig["name"].text))}

(* C20: the commands of an installation are run in the documented order,   *)
(* the migration is created only after a merge command that succeeded, and *)
(* the routes are generated only when the routes of the add-on are in      *)
(* worker.tsx.                                                             *)
X20_DocumentedOrder ==
  tool = "installAddon.mjs" =>
    /\ \A i, j \in 1..Len(execLog) : i < j => stepOf(execLog[i]) <= stepOf(execLog[j])
    /\ "pnpm migrate:new merge addon schema" \in executed =>
         "npx rwsdk-tools merge" \in executed \ failing
    /\ "pnpm routes" \in executed => routesWritten

-----------------------------------------------------------------------------
(* The flags on the command line of the generator *)
given == {argv[k] : k \in 1..Len(argv)} \cap Flags

(* The files the step creates *)
created == DOMAIN files' \ DOMAIN files

single(suffix) == "src/app/components/MyComponent" \o suffix
inFolder(suffix) == "src/app/components/MyComponent/" \o suffix

(* none of the files in the set exists before the step *)
free(paths) == paths \cap DOMAIN files = {}

(* C18: the files the component generator creates follow the flags.  --file *)
(* alone creates the component file and nothing else, --file --stories the  *)
(* component and its stories, --folder --no-stories --no-tests the          *)
(* component in its folder and index.ts; and whatever the answers are, a    *)
(* structure, stories or tests flag decides alone where the files go and    *)
(* whether a stories or a test file is created.                             *)
C18_FlagsDetermineFiles ==
  [][(tool = "plopfile.mjs" /\ tpc = "actions") =>
       /\ given = {"--file"} =>
            /\ created \subseteq {single(".tsx")}
            /\ free({single(".tsx")}) => created = {single(".tsx")}
       /\ given = {"--file", "--stories"} =>
            /\ created \subseteq {single(".tsx"), single(".stories.tsx")}
            /\ free({single(".tsx"), single(".stories.tsx")}) =>
                 created = {single(".tsx"), single(".stories.tsx")}
       /\ given = {"--folder", "--no-stories", "--no-tests"} =>
            created = {inFolder("MyComponent.tsx"), inFolder("index.ts")}
       /\ "--file" \in given =>
            created \cap {inFolder("MyComponent.tsx"), inFolder("index.ts"),
                          inFolder("MyComponent.stories.tsx"),
                          inFolder("MyComponent.test.tsx")} = {}
       /\ ("--folder" \in given /\ "--file" \notin given) =>
            created \cap {single(".tsx"), single(".stories.tsx"), single(".test.tsx")} = {}
       /\ ("--no-stories" \in given /\ "--stories" \notin given) =>
            created \cap {single(".stories.tsx"), inFolder("MyComponent.stories.tsx")} = {}
       /\ ("--no-tests" \in given /\ "--tests" \notin given) =>
            created \cap {single(".test.tsx"), inFolder("MyComponent.test.tsx")} = {}
       /\ ("--stories" \in given /\ free({single(".tsx"), single(".stories.tsx")})) =>
            created \cap {single(".stories.tsx"), inFolder("MyComponent.stories.tsx")} # {}
       /\ ("--tests" \in given /\ free({single(".tsx"), single(".stories.tsx")})) =>
            created \cap {single(".test.tsx"), inFolder("MyComponent.test.tsx")} # {}]_vars

(* --file --stories was given, the answers asked for a folder and for tests, *)
(* and the generator created the component file and its stories only         *)
W18_FileWithStories ==
  /\ tool = "plopfile.mjs" /\ tpc = "done"
  /\ argv = <<"component", "MyComponent", "--file", "--stories">>
  /\ holds(answers, "structure", "folder") /\ holds(answers, "withTests", TRUE)
  /\ existsFile(files, single(".tsx")) /\ existsFile(files, single(".stories.tsx"))
  /\ ~existsFile(files, single(".test.tsx")) /\ ~existsFile(files, inFolder("index.ts"))

-----------------------------------------------------------------------------
(* The script an installer that only copies its file adds *)
scriptOf(name) ==
  IF name = "routes" THEN <<"routes", "npx tsx src/scripts/generateRoutes.ts">>
  ELSE IF name = "seedtosql" THEN <<"seedtosql", "node src/scripts/seedToSql.mjs">>
  ELSE <<"merge", "node src/scripts/mergePrismaSchema.mjs">>

(* The entries of the scripts section, none when there is no section *)
scriptsOf(pkg) ==
  IF fieldIndex(pkg, "scripts") = 0 THEN <<>> ELSE pkg.fields[fieldIndex(pkg, "scripts")].entries

(* The entries with another name than the one given, in their order *)
otherEntries(entries, name) == SelectSeq(entries, LAMBDA e : e[1] # name)

(* The top-level fields but scripts, in their order *)
otherFields(pkg) == SelectSeq(pkg.fields, LAMBDA f : f.key # "scripts")

(* C19: where an installer calls addScriptToPackageJson(project, name,      *)
(* command), package.json afterwards has scripts[name] = command once, its  *)
(* other scripts and its other top-level fields are as before, and a second *)
(* call with the same arguments would give the same package.json; without a *)
(* package.json none is created and the installer goes on without exiting.  *)
C19_ScriptSetOthersKept ==
  [][(\E n \in {"routes", "seedtosql", "merge"} : mainCalls(n)) =>
       IF packageJson.exists
         THEN /\ packageJson'.exists
              /\ Len(SelectSeq(scriptsOf(packageJson'),
                               LAMBDA e : e[1] = scriptOf(Head(queue))[1])) = 1
              /\ \E e \in 1..Len(scriptsOf(packageJson')) :
                   scriptsOf(packageJson')[e] = scriptOf(Head(queue))
              /\ otherEntries(scriptsOf(packageJson'), Head(queue))
                   = otherEntries(scriptsOf(packageJson), Head(queue))
              /\ otherFields(packageJson') = otherFields(packageJson)
              /\ addScriptToPackageJson(packageJson', scriptOf(Head(queue))[1],
                                        scriptOf(Head(queue))[2]) = packageJson'
         ELSE /\ packageJson' = packageJson
              /\ toolExit' = NoExit
              /\ tpc' = "install"
              /\ ran' = Append(ran, Head(queue))]_vars

(* The routes installer has replaced the routes script of the starter's     *)
(* package.json; the dev script and the dependencies are still there        *)
W19_RoutesScriptReplaced ==
  /\ tool \in CliTools
  /\ ran = <<"routes">>
  /\ packageJson.exists
  /\ scriptsOf(packageJson)
       = << <<"dev", "vite dev">>, <<"routes", "npx tsx src/scripts/generateRoutes.ts">> >>
  /\ hasEntry(packageJson, "dependencies", "rwsdk")

-----------------------------------------------------------------------------
(* The prefix a reference at position i of the text adds itself *)
ownPrefix(text, i) == IF text[i].k = "prefixVar" THEN text[i].p ELSE ""

(* C21: the routes of the file a spread or a prefix("<p>", name) reference  *)
(* names are in the output with the prefixes of the blocks around the       *)
(* reference, outermost first, and for prefix("<p>", name) with p after     *)
(* them.                                                                    *)
X21_ImportedRoutesCarryScopePrefix ==
  Extracted =>
    \A i \in BoundReferences(content) :
      CanRead(fsys, resolveImportPath(importsGet(content, content[i].n), fsys)) =>
        Range(extractRoutesFromContent(
                fsys[resolveImportPath(importsGet(content, content[i].n), fsys)].text,
                EnclosingPrefix(content, i) \o ownPrefix(content, i), fsys).routes)
          \subseteq Range(routes)

-----------------------------------------------------------------------------
(* The depth after position j of a count that starts at 1 before position   *)
(* start                                                                    *)
RECURSIVE depthAt(_, _, _)
depthAt(text, start, j) ==
  IF j < start THEN 1
  ELSE depthAt(text, start, j - 1) + Opens(text[j]) - Closes(text[j])

(* The positions from start on where that depth is 0 *)
closings(text, start) == {j \in start..Len(text) : depthAt(text, start, j) = 0}

(* The first of them, the last position of the text when there is none *)
matchingBracket(text, start) ==
  IF closings(text, start) = {} THEN Len(text)
  ELSE CHOOSE j \in closings(text, start) : \A k \in closings(text, start) : j <= k

(* C22: findMatchingBracket returns, for every text and start, the first    *)
(* position from start on where the depth reaches 0, and the last position  *)
(* of the text when there is none; the text handed on for a block with a    *)
(* matching ']' is the text between the block's '[' and that ']'.           *)
C22_MatchingBracketByDepth ==
  /\ \A start \in 1..(Len(content) + 1) :
       findMatchingBracket(content, start) = matchingBracket(content, start)
  /\ pc = "nested" =>
       LET text == fsys[WorkerPath].text
           start == firstPrefixBlock(text) + 1
       IN  closings(text, start) # {} =>
             content = SubSeq(text, start, matchingBracket(text, start) - 1)

(* A block with a component array in it: the text handed on ends before the *)
(* block's own ']' and holds the array's brackets                           *)
W22_BlockWithInnerArray ==
  /\ pc = "nested"
  /\ fsys[WorkerPath].text = <<PrefixOpen("/a"), Route("/x"), LB, RB, RB, Route("/y")>>
  /\ content = <<Route("/x"), LB, RB>>

-----------------------------------------------------------------------------
(* C23: the route scan of a scope skips a route("<p>" call exactly when the *)
(* call lies inside a prefix("<q>", [ ... ]) block of the scope, so that a  *)
(* call inside a block is not emitted as prefix + p by the scope and a call *)
(* outside every block is.                                                  *)
X23_RouteScanSkipsBlockRoutes ==
  Extracted =>
    \A i \in 1..Len(content) :
      content[i].k = "route" =>
        (routeIsOutsidePrefix(content, i) <=> ~InsidePrefixBlock(content, i))

-----------------------------------------------------------------------------
(* C24: where an installer calls addScriptToPackageJson on a package.json   *)
(* indented with 2 or with 4 spaces, the file is rewritten with the         *)
(* indentation it had.                                                      *)
X24_IndentationPreserved ==
  [][((\E n \in {"routes", "seedtosql", "merge"} : mainCalls(n))
      /\ packageJson.exists /\ packageJson.indent \in {2, 4}) =>
       packageJson'.indent = packageJson.indent]_vars

-----------------------------------------------------------------------------
(* C25: whatever the route files import, the extraction comes to an end:   *)
(* main() writes links.ts or exits with status 1.                          *)
X25_ExtractionTerminates ==
  <>((pc = "done" /\ linksFile.written) \/ (pc = "failed" /\ exitCode = 1))

(* C26: what stands inside a prefix block reaches the output only through  *)
(* the extraction of that block: the nested example yields no "/b/c", and  *)
(* a source whose index calls all stand inside prefix blocks yields no "/".*)
X26_BlockContentOnlyThroughBlock ==
  Extracted =>
    /\ content = NestedExample => "/b/c" \notin Range(routes)
    /\ ( /\ \A i \in 1..Len(content) :
              content[i].k = "index" => InsidePrefixBlock(content, i)
         /\ BoundReferences(content) = {} )
       => "/" \notin Range(routes)

(* C27: when installAddon returned false because addon.jsonc is missing or *)
(* cannot be parsed, the installer does not exit with status 0.            *)
X27_FailedInstallExitsNonZero ==
  (tool = "installAddon.mjs" /\ tpc = "exited"
     /\ addonDir \in {"no addon.jsonc", "unparsable addon.jsonc"})
    => toolExit # 0

(* C28: while a component is restructured its source content is never     *)
(* absent from both places: once read it stands in <name>.tsx or in        *)
(* <name>/<name>.tsx, the original disappears only in a step that leaves   *)
(* its content in the new file, a failure leaves the original as it was,   *)
(* and on success the new file holds the content of the original.          *)
sourceKept ==
  \/ /\ existsFile(files, sourcePathOf(answers["name"]))
     /\ files[sourcePathOf(answers["name"])] = sourceContent
  \/ /\ existsFile(files, newPathOf(answers["name"]))
     /\ files[newPathOf(answers["name"])] = sourceContent

(* a step leaves the original as it was, or is the one that ends the move *)
sourceStep ==
  tool \in Restructures /\ existsFile(files, sourcePathOf(answers["name"])) =>
    /\ sourceContent' \in {sourceContent, files[sourcePathOf(answers["name"])]}
    /\ IF existsFile(files', sourcePathOf(answers["name"]))
         THEN files'[sourcePathOf(answers["name"])] = files[sourcePathOf(answers["name"])]
         ELSE /\ tpc' = "done"
              /\ existsFile(files, newPathOf(answers["name"]))
              /\ files'[newPathOf(answers["name"])] = files[sourcePathOf(answers["name"])]

C28_SourceNeverLost ==
  /\ [](tool \in Restructures =>
          /\ tpc \in {"mkdir", "write", "unlink", "done"} => sourceKept
          /\ tpc = "done" =>
               /\ existsFile(files, newPathOf(answers["name"]))
               /\ files[newPathOf(answers["name"])] = sourceContent
               /\ ~existsFile(files, sourcePathOf(answers["name"])))
  /\ [][sourceStep]_vars

W28_MovedIntoFolder ==
  /\ tool \in Restructures /\ tpc = "done"
  /\ sourceContent # <<>>
  /\ ~existsFile(files, sourcePathOf("Button"))
  /\ files[newPathOf("Button")] = sourceContent

(* C29: processSeedFile emits the three hard-coded statements exactly when *)
(* the seed text holds 'RedwoodSDK', 'john.doe@example.com' and 'Hiring    *)
(* Manager'; then nothing else is extracted and the output is those three  *)
(* statements alone.                                                       *)
holdsAllThree ==
  /\ includes(seedFileContent, "RedwoodSDK")
  /\ includes(seedFileContent, "john.doe@example.com")
  /\ includes(seedFileContent, "Hiring Manager")

C29_Example2ExactlyOnAllThree ==
  spc \in {"processed", "done"} =>
    /\ holdsAllThree <=> Range(Example2Statements) \subseteq Range(sqlStatements)
    /\ holdsAllThree => sqlStatements = Example2Statements /\ extracted = Example2Statements
    /\ spc = "done" /\ holdsAllThree => written.statements = Example2Statements

W29_OtherCallsLeftOut ==
  /\ spc = "done"
  /\ Len(seedFileContent) = 2
  /\ holdsAllThree
  /\ \E c \in 1..2 : seedFileContent[c].kind = "raw"
  /\ written.statements = Example2Statements

(* C30: installTailwindSetup run on the files it has left changes none of  *)
(* styles.css, vite.config.mts and Document.tsx; and when vite.config.mts  *)
(* or Document.tsx is missing it exits with status 1 and has created or    *)
(* changed no file.                                                        *)
TailwindFiles == {"src/app/styles.css", "vite.config.mts", "src/app/Document.tsx"}

tailwindHasRun ==
  tool \in CliTools /\ tpc \in {"install", "done"} /\ ran = <<"tailwind">>

leftAsIs ==
  \A f \in TailwindFiles :
    /\ existsFile(files, f)
    /\ installTailwindSetup(project, failing).files[f] = files[f]

exitsUntouched ==
  (mainCalls("tailwind")
     /\ (~existsFile(files, "vite.config.mts") \/ ~existsFile(files, "src/app/Document.tsx")))
    => toolExit' = 1 /\ files' = files /\ packageJson' = packageJson /\ execLog' = execLog

C30_TailwindSetupIdempotent ==
  /\ [](tailwindHasRun => leftAsIs)
  /\ [][exitsUntouched]_vars

W30_SetUpOverOwnStyles ==
  /\ tailwindHasRun /\ tpc = "done"
  /\ files["src/app/styles.css"] = <<TailwindImport>> \o CustomStyles
  /\ includesText(files["vite.config.mts"], <<"tailwindcss()">>)
  /\ includesText(files["src/app/Document.tsx"], <<"<link rel=stylesheet href={styles}">>)

====
